---- MODULE Spec2Model ----
(***************************************************************************)
(* Model of the NordPass Raycast extension's encrypted cache: the source   *)
(* (CSV export) files, the cache file, path resolution, the ingestion      *)
(* pipeline, the fingerprint, the codec and the cache manager's handlers.  *)
(* A JavaScript string is a sequence of one-character strings.             *)
(***************************************************************************)
EXTENDS Integers, Sequences, FiniteSets, TLC

VARIABLES
  fs,      \* the candidate export files: path -> file
  mtime,   \* modification time of the files of ~/.nordpass
  cache,   \* the cache file, <supportPath>/nordpass-cache.json
  pref,    \* the exportFilePath preference, <<>> when empty
  now,     \* Date.now()
  last     \* the last call: what it was, what it returned, what it did

vars == <<fs, mtime, cache, pref, now, last>>

(***************************************************************************)
(* Bounds                                                                  *)
(***************************************************************************)
\* Date.now() takes values 0..MaxClock
MaxClock == 1
\* crypto.randomBytes(16) takes values 1..NumIvs
NumIvs == 1

\* const x = value; then the statements that read x: the value is computed
\* first, the statements after it
Let(value, body(_)) == CHOOSE result \in {body(x) : x \in {value}} : TRUE

(***************************************************************************)
(* Characters and strings                                                  *)
(***************************************************************************)
\* the digits and the letters, in the order of their character codes
Alphabet ==
  [digits |-> <<"0","1","2","3","4","5","6","7","8","9">>,
   lower |-> <<"a","b","c","d","e","f","g","h","i","j","k","l","m",
               "n","o","p","q","r","s","t","u","v","w","x","y","z">>,
   upper |-> <<"A","B","C","D","E","F","G","H","I","J","K","L","M",
               "N","O","P","Q","R","S","T","U","V","W","X","Y","Z">>]

Range(s) == {s[i] : i \in 1..Len(s)}

IndexOf(s, c) == CHOOSE i \in 1..Len(s) : s[i] = c

\* String.prototype.charCodeAt for the characters the model uses
charCodeAt(c) ==
  IF c = "\n" THEN 10
  ELSE IF c = " " THEN 32
  ELSE IF c = "\"" THEN 34
  ELSE IF c = "," THEN 44
  ELSE IF c = "_" THEN 95
  ELSE IF c = "{" THEN 123
  ELSE IF c \in Range(Alphabet.digits) THEN 47 + IndexOf(Alphabet.digits, c)
  ELSE IF c \in Range(Alphabet.upper) THEN 64 + IndexOf(Alphabet.upper, c)
  ELSE 96 + IndexOf(Alphabet.lower, c)

\* String.prototype.toLowerCase, one character
lowerChar(c) == IF c \in Range(Alphabet.upper) THEN Alphabet.lower[IndexOf(Alphabet.upper, c)] ELSE c

\* toLowerCase, were the string left as it is written
toLowerCase_asWritten(s) == s

toLowerCase(s) == [i \in 1..Len(s) |-> lowerChar(s[i])]

(***************************************************************************)
(* calculateFileHash: h := (h << 5) - h + code, kept to a signed 32-bit    *)
(* integer, rendered with toString(36).  The 32-bit value is carried as    *)
(* two 16-bit halves so that no intermediate product leaves the integers   *)
(* the checker computes with.                                              *)
(***************************************************************************)
W16 == 65536

\* one loop iteration, were the codes added up without the shift
hashStep_unordered(h, code) ==
  LET loSum == h[2] + code
      hiSum == h[1] + (loSum \div W16)
  IN  <<hiSum % W16, loSum % W16>>

\* one loop iteration on the unsigned 32-bit pattern <<hi, lo>>
hashStep(h, code) ==
  LET loSum == 31 * h[2] + code
      hiSum == 31 * h[1] + (loSum \div W16)
  IN  <<hiSum % W16, loSum % W16>>

RECURSIVE hashLoop(_, _, _)
hashLoop(content, i, h) ==
  IF i > Len(content) THEN h
  ELSE hashLoop(content, i + 1, hashStep(h, charCodeAt(content[i])))

\* the signed 32-bit integer of a bit pattern (hash & hash)
toInt32(h) == IF h[1] >= 32768 THEN (h[1] - W16) * W16 + h[2] ELSE h[1] * W16 + h[2]

RECURSIVE base36(_)
base36(n) ==
  IF n < 36 THEN <<(Alphabet.digits \o Alphabet.lower)[n + 1]>>
  ELSE base36(n \div 36) \o <<(Alphabet.digits \o Alphabet.lower)[(n % 36) + 1]>>

\* Number.prototype.toString(36) of a signed 32-bit integer; -2^31 is
\* rendered from its two halves because its magnitude is not a 32-bit int
toString36(n) ==
  IF n >= 0 THEN base36(n)
  ELSE IF n = (0 - 32768) * W16 THEN <<"-","z","i","k","0","z","k">>
  ELSE <<"-">> \o base36(0 - n)

calculateFileHash(content) == toString36(toInt32(hashLoop(content, 1, <<0, 0>>)))


(***************************************************************************)
(* JavaScript values: a string, or undefined                               *)
(***************************************************************************)
Str(s) == [t |-> "str", s |-> s]
Undefined == [t |-> "undef"]

\* truthiness of a string-or-undefined value
Truthy(v) == v.t = "str" /\ Len(v.s) > 0

\* a || b, were the right operand preferred
Or_rightFirst(a, b) == IF Truthy(b) THEN b ELSE a

\* a || b
Or(a, b) == IF Truthy(a) THEN a ELSE b

\* property access on a row: record.key
Field(record, key) == IF key \in DOMAIN record THEN Str(record[key]) ELSE Undefined

(***************************************************************************)
(* csv-parse/sync parse(content, {columns: true, skip_empty_lines: true,   *)
(* trim: true, relax_column_count: true, relax_quotes: true}), as a scan   *)
(* over the characters.                                                    *)
(***************************************************************************)
RECURSIVE rtrim(_)
rtrim(f) == IF Len(f) > 0 /\ f[Len(f)] = " " THEN rtrim(SubSeq(f, 1, Len(f) - 1)) ELSE f

csvInit == [rows |-> <<>>, row |-> <<>>, field |-> <<>>, quoting |-> FALSE, wasQuoting |-> FALSE,
            escaped |-> FALSE]

csvEndField(st) ==
  [st EXCEPT !.row = Append(st.row, IF st.wasQuoting THEN st.field ELSE rtrim(st.field)),
             !.field = <<>>, !.wasQuoting = FALSE]

csvEndRow(st) ==
  IF st.row = <<>> /\ st.field = <<>> /\ ~st.wasQuoting
  THEN st   \* skip_empty_lines
  ELSE LET e == csvEndField(st) IN [e EXCEPT !.rows = Append(e.rows, e.row), !.row = <<>>]

\* the parser reads the character at i; escaped: it is the second quote of
\* a "" pair, which the first one has taken with it
csvStep(s, i, st) ==
  LET c == s[i]
      more == i < Len(s)
  IN
  IF st.escaped THEN [st EXCEPT !.escaped = FALSE]
  ELSE IF st.quoting
  THEN IF c = "\""
       THEN IF more /\ s[i + 1] = "\""
            THEN [st EXCEPT !.field = Append(st.field, "\""), !.escaped = TRUE]
            ELSE IF ~more \/ s[i + 1] \in {",", "\n", " "}
            THEN [st EXCEPT !.quoting = FALSE, !.wasQuoting = TRUE]
            ELSE \* relax_quotes: the field is kept as written, quotes included
                 [st EXCEPT !.quoting = FALSE, !.field = <<"\"">> \o st.field \o <<"\"">>]
       ELSE [st EXCEPT !.field = Append(st.field, c)]
  ELSE IF c = "\"" /\ st.field = <<>> /\ ~st.wasQuoting THEN [st EXCEPT !.quoting = TRUE]
  ELSE IF c = "\n" THEN csvEndRow(st)
  ELSE IF c = "," THEN csvEndField(st)
  ELSE IF c = " " /\ (st.field = <<>> \/ st.wasQuoting) THEN st   \* trim
  ELSE [st EXCEPT !.field = Append(st.field, c)]

\* the characters from..to read in order, the first half before the second
RECURSIVE csvRead(_, _, _, _)
csvRead(s, from, to, st) ==
  IF from > to THEN st
  ELSE IF from = to THEN csvStep(s, from, st)
  ELSE Let(csvRead(s, from, (from + to) \div 2, st), LAMBDA half :
         csvRead(s, (from + to) \div 2 + 1, to, half))

csvScan(s, i, st) ==
  Let(csvRead(s, i, Len(s), st), LAMBDA end :
    IF end.quoting THEN [ok |-> FALSE, rows |-> <<>>]   \* quote is not closed
    ELSE [ok |-> TRUE, rows |-> csvEndRow(end).rows])

\* columns: true -- the first row names the columns; relax_column_count --
\* a short row has only its own columns, the extra fields of a long row are dropped
csvRecord(columns, row) ==
  LET n == IF Len(row) < Len(columns) THEN Len(row) ELSE Len(columns)
      last_j(k) == CHOOSE j \in 1..n : columns[j] = k /\ \A m \in (j + 1)..n : columns[m] # k
  IN  [k \in {columns[j] : j \in 1..n} |-> row[last_j(k)]]

parse(content) ==
  Let(csvScan(content, 1, csvInit), LAMBDA scan :
    IF ~scan.ok THEN [ok |-> FALSE, records |-> <<>>]
    ELSE IF scan.rows = <<>> THEN [ok |-> TRUE, records |-> <<>>]
    ELSE [ok |-> TRUE,
          records |-> [r \in 1..(Len(scan.rows) - 1) |-> csvRecord(scan.rows[1], scan.rows[r + 1])]])

(***************************************************************************)
(* Column names and item types the ingestion recognises                    *)
(***************************************************************************)
\* the column names, as characters
Column ==
  [type |-> <<"t","y","p","e">>,
   name |-> <<"n","a","m","e">>,
   title |-> <<"t","i","t","l","e">>,
   url |-> <<"u","r","l">>,
   website |-> <<"w","e","b","s","i","t","e">>,
   username |-> <<"u","s","e","r","n","a","m","e">>,
   login |-> <<"l","o","g","i","n">>,
   password |-> <<"p","a","s","s","w","o","r","d">>,
   note |-> <<"n","o","t","e">>,
   notes |-> <<"n","o","t","e","s">>,
   folder |-> <<"f","o","l","d","e","r">>,
   category |-> <<"c","a","t","e","g","o","r","y">>,
   cardNumber |-> <<"c","a","r","d","N","u","m","b","e","r">>,
   card_number |-> <<"c","a","r","d","_","n","u","m","b","e","r">>,
   number |-> <<"n","u","m","b","e","r">>,
   expiryDate |-> <<"e","x","p","i","r","y","D","a","t","e">>,
   expiry_date |-> <<"e","x","p","i","r","y","_","d","a","t","e">>,
   expiry |-> <<"e","x","p","i","r","y">>,
   cvv |-> <<"c","v","v">>,
   cvc |-> <<"c","v","c">>,
   securityCode |-> <<"s","e","c","u","r","i","t","y","C","o","d","e">>,
   cardholderName |-> <<"c","a","r","d","h","o","l","d","e","r","N","a","m","e">>,
   cardholder_name |-> <<"c","a","r","d","h","o","l","d","e","r","_","n","a","m","e">>,
   cardholder |-> <<"c","a","r","d","h","o","l","d","e","r">>]

\* the item types: what the type column holds in lower case, and what the
\* entities carry
ItemType ==
  [creditcard |-> <<"c","r","e","d","i","t","c","a","r","d">>,
   credit_card |-> <<"c","r","e","d","i","t","_","c","a","r","d">>,
   card |-> <<"c","a","r","d">>,
   securenote |-> <<"s","e","c","u","r","e","n","o","t","e">>,
   secure_note |-> <<"s","e","c","u","r","e","_","n","o","t","e">>,
   creditCard |-> <<"c","r","e","d","i","t","C","a","r","d">>,
   secureNote |-> <<"s","e","c","u","r","e","N","o","t","e">>]

hasPasswordFields(record) ==
  Truthy(Or(Or(Field(record, Column.password), Field(record, Column.username)), Field(record, Column.url)))

hasCreditCardFields(record) ==
  \E k \in {Column.cardNumber, Column.card_number, Column.expiryDate, Column.expiry_date, Column.cvv,
            Column.cardholderName, Column.cardholder_name} : Truthy(Field(record, k))

hasSecureNoteFields(record) ==
  /\ Truthy(Field(record, Column.note))
  /\ ~Truthy(Field(record, Column.password))
  /\ ~Truthy(Field(record, Column.username))

inferItemType(record) ==
  IF hasCreditCardFields(record) THEN ItemType.creditcard
  ELSE IF hasPasswordFields(record) THEN Column.password
  ELSE IF hasSecureNoteFields(record) THEN Column.note
  ELSE Column.password

parsePassword(record) ==
  [type |-> Str(Column.password),
   name |-> Or(Or(Field(record, Column.name), Field(record, Column.title)), Str(<<>>)),
   url |-> Or(Or(Field(record, Column.url), Field(record, Column.website)), Undefined),
   username |-> Or(Or(Field(record, Column.username), Field(record, Column.login)), Undefined),
   password |-> Or(Field(record, Column.password), Str(<<>>)),
   note |-> Or(Or(Field(record, Column.note), Field(record, Column.notes)), Undefined),
   folder |-> Or(Or(Field(record, Column.folder), Field(record, Column.category)), Undefined)]

parseCreditCard(record) ==
  [type |-> Str(ItemType.creditCard),
   name |-> Or(Or(Field(record, Column.name), Field(record, Column.title)), Str(<<>>)),
   cardholderName |-> Or(Or(Or(Field(record, Column.cardholderName), Field(record, Column.cardholder_name)),
                            Field(record, Column.cardholder)), Undefined),
   cardNumber |-> Or(Or(Or(Field(record, Column.cardNumber), Field(record, Column.card_number)),
                        Field(record, Column.number)), Undefined),
   expiryDate |-> Or(Or(Or(Field(record, Column.expiryDate), Field(record, Column.expiry_date)),
                        Field(record, Column.expiry)), Undefined),
   cvv |-> Or(Or(Or(Field(record, Column.cvv), Field(record, Column.cvc)), Field(record, Column.securityCode)),
              Undefined),
   note |-> Or(Or(Field(record, Column.note), Field(record, Column.notes)), Undefined),
   folder |-> Or(Or(Field(record, Column.folder), Field(record, Column.category)), Undefined)]

parseSecureNote(record) ==
  [type |-> Str(ItemType.secureNote),
   name |-> Or(Or(Field(record, Column.name), Field(record, Column.title)), Str(<<>>)),
   note |-> Or(Or(Field(record, Column.note), Field(record, Column.notes)), Str(<<>>)),
   folder |-> Or(Or(Field(record, Column.folder), Field(record, Column.category)), Undefined)]

\* the list a row is pushed to by the switch: "passwords", "creditCards",
\* "secureNotes", or "none" when the default branch matches nothing
itemKind(record) ==
  Let(Field(record, Column.type), LAMBDA typeField :
  Let(IF typeField.t = "str" /\ Len(typeField.s) > 0
      THEN toLowerCase(typeField.s) ELSE inferItemType(record), LAMBDA itemType :
    IF itemType \in {Column.password, Column.login} THEN "passwords"
    ELSE IF itemType \in {ItemType.creditcard, ItemType.credit_card, ItemType.card} THEN "creditCards"
    ELSE IF itemType \in {Column.note, ItemType.securenote, ItemType.secure_note} THEN "secureNotes"
    ELSE IF hasPasswordFields(record) THEN "passwords"
    ELSE IF hasCreditCardFields(record) THEN "creditCards"
    ELSE IF hasSecureNoteFields(record) THEN "secureNotes"
    ELSE "none"))

RECURSIVE selectKind(_, _, _)
selectKind(records, i, kind) ==
  IF i > Len(records) THEN <<>>
  ELSE (IF itemKind(records[i]) = kind
        THEN <<IF kind = "passwords" THEN parsePassword(records[i])
               ELSE IF kind = "creditCards" THEN parseCreditCard(records[i])
               ELSE parseSecureNote(records[i])>>
        ELSE <<>>) \o selectKind(records, i + 1, kind)

\* parseExportFile on the content read from the file
parseExportFile(content) ==
  Let(parse(content), LAMBDA p :
    IF ~p.ok THEN [ok |-> FALSE, passwords |-> <<>>, creditCards |-> <<>>, secureNotes |-> <<>>]
    ELSE [ok |-> TRUE,
          passwords |-> selectKind(p.records, 1, "passwords"),
          creditCards |-> selectKind(p.records, 1, "creditCards"),
          secureNotes |-> selectKind(p.records, 1, "secureNotes")])


(***************************************************************************)
(* Text: a character string, or the JSON text of a value.  JSON values:    *)
(* null, or an object with its properties.                                 *)
(***************************************************************************)
Chars(s) == [t |-> "chars", s |-> s]
JsonText(v) == [t |-> "json", v |-> v]

JNull == [j |-> "null"]
JObject(props) == [j |-> "object", props |-> props]

\* obj.key
Prop(obj, key) == IF obj.j = "object" /\ key \in DOMAIN obj.props THEN obj.props[key] ELSE Undefined

\* JSON.stringify leaves out the properties whose value is undefined
stringifyEntity(e) == [k \in {x \in DOMAIN e : e[x] # Undefined} |-> e[k]]

\* stringifyList, were the array written last element first
stringifyList_reversed(list) == [i \in 1..Len(list) |-> stringifyEntity(list[Len(list) + 1 - i])]

stringifyList(list) == [i \in 1..Len(list) |-> stringifyEntity(list[i])]

\* JSON.stringify(data, null, 2) of a CachedData
JSONstringify(data) ==
  LET d == data.props
  IN  JsonText(JObject((IF d.exportFileHash = Undefined THEN <<>>
                        ELSE [exportFileHash |-> d.exportFileHash])
                       @@ [passwords |-> stringifyList(d.passwords),
                           creditCards |-> stringifyList(d.creditCards),
                           secureNotes |-> stringifyList(d.secureNotes),
                           lastUpdated |-> d.lastUpdated]))

\* JSON.parse: the value of a JSON text; a syntax error on any other text
JSONparse(text) == IF text.t = "json" THEN [ok |-> TRUE, value |-> text.v]
                   ELSE [ok |-> FALSE, value |-> JNull]

(***************************************************************************)
(* Key derivation and AES-256-GCM, symbolically: a ciphertext names the    *)
(* key, the iv and the plaintext it was made from, and the authentication  *)
(* tag names the key, the iv and the ciphertext it authenticates.          *)
(***************************************************************************)
\* [os.hostname(), os.userInfo().username, os.platform(), os.arch()] of
\* this machine and of another
SystemInfo ==
  [this |-> <<"mac", "alice", "darwin", "arm64">>,
   other |-> <<"pc", "alice", "darwin", "arm64">>]

\* deriveEncryptionKey, were the key derived from the salt alone
deriveEncryptionKeyOf_saltOnly(info) == [pbkdf2 |-> <<>>, salt |-> "nordpass-raycast-extension-v1"]

deriveEncryptionKeyOf(info) == [pbkdf2 |-> info, salt |-> "nordpass-raycast-extension-v1"]

deriveEncryptionKey == deriveEncryptionKeyOf(SystemInfo.this)

\* UTF-16 code units that are text only as a pair, and the character a
\* UTF-8 encoder writes for one that stands alone
Utf16 == [high |-> "U+D83D", low |-> "U+DE00", replacement |-> "U+FFFD"]

\* s[i] is a character, or one half of a surrogate pair that is complete
wellFormedAt(s, i) ==
  IF s[i] = Utf16.high THEN i < Len(s) /\ s[i + 1] = Utf16.low
  ELSE IF s[i] = Utf16.low THEN i > 1 /\ s[i - 1] = Utf16.high
  ELSE TRUE

\* the bytes of a string in UTF-8, named by the text they spell
utf8Encode(text) ==
  IF text.t = "chars"
  THEN [utf8 |-> Chars([i \in 1..Len(text.s) |->
                          IF wellFormedAt(text.s, i) THEN text.s[i] ELSE Utf16.replacement])]
  ELSE [utf8 |-> text]

\* the string that UTF-8 bytes spell
utf8Decode(bytes) == bytes.utf8

\* bytes written as hex digits: toString("hex") and the cipher's "hex" output
\* write lower-case digits
toHex(bytes) == [hex |-> bytes, as |-> "lower"]

\* Buffer.from(text, "hex") and the decipher's "hex" input: digits of either
\* case; the bytes end before the first character that is not a hex digit
fromHex(h) == IF h.as = "cut" THEN [cut |-> h.hex, left |-> h.left] ELSE h.hex

\* a hex string is falsy exactly when it is empty: no byte and no other character
hexTruthy(h) == h.as = "cut" \/ ~("pt" \in DOMAIN h.hex /\ h.hex.pt = utf8Encode(Chars(<<>>)))

cipherOf(key, iv, data) == [key |-> key, iv |-> iv, pt |-> data]
authTagOf(key, iv, ct) == [tkey |-> key, tiv |-> iv, tct |-> ct]

\* the number of bytes of an authentication tag (getAuthTag gives 16), and
\* the lengths setAuthTag accepts
tagLength(authTag) == IF "cut" \in DOMAIN authTag THEN authTag.left ELSE 16
validTagLength(n) == n \in {4, 8, 12, 13, 14, 15, 16}

\* decipher.final(), were the tag not verified
tagMatches_unverified(authTag, computed) == TRUE

\* decipher.final(): the tag given, as long as it is, against the tag computed
tagMatches(authTag, computed) ==
  IF "cut" \in DOMAIN authTag THEN authTag.cut = computed ELSE authTag = computed

\* crypto.randomBytes(16): the bytes of the n-th draw
randomBytes(n) == [random |-> n]

encryptDataWith(key, n, data) ==
  LET iv == randomBytes(n)
      encrypted == cipherOf(key, iv, utf8Encode(data))
  IN  JsonText(JObject([iv |-> toHex(iv),
                        authTag |-> toHex(authTagOf(key, iv, encrypted)),
                        encrypted |-> toHex(encrypted)]))

\* encryptData, were the key derived from a value of the run as well
encryptData_perRunKey(n, data) ==
  encryptDataWith(deriveEncryptionKeyOf(SystemInfo.this \o <<"process.pid">>), n, data)

encryptData(n, data) == encryptDataWith(deriveEncryptionKey, n, data)

isToken(parsed) ==
  /\ parsed.j = "object"
  /\ {"iv", "authTag", "encrypted"} \subseteq DOMAIN parsed.props

isEncrypted(data) ==
  LET p == JSONparse(data)
  IN  /\ p.ok
      /\ isToken(p.value)
      /\ hexTruthy(p.value.props.iv)
      /\ hexTruthy(p.value.props.authTag)
      /\ hexTruthy(p.value.props.encrypted)

\* decryptData with the key the machine derives; every failure becomes the one error
decryptDataWith(key, encryptedData) ==
  LET p == JSONparse(encryptedData)
      failed == [ok |-> FALSE, text |-> Chars(<<>>)]
  IN  IF ~p.ok \/ ~isToken(p.value) THEN failed
      ELSE LET iv == fromHex(p.value.props.iv)
               authTag == fromHex(p.value.props.authTag)
               encrypted == fromHex(p.value.props.encrypted)
           IN  IF ~validTagLength(tagLength(authTag)) THEN failed
               ELSE IF ~tagMatches(authTag, authTagOf(key, iv, encrypted)) THEN failed
               ELSE IF "pt" \in DOMAIN encrypted /\ encrypted.key = key /\ encrypted.iv = iv
                    THEN [ok |-> TRUE, text |-> utf8Decode(encrypted.pt)]
                    ELSE failed

decryptData(encryptedData) == decryptDataWith(deriveEncryptionKey, encryptedData)

(***************************************************************************)
(* Files.  A file is absent, or has a content and permission bits.         *)
(***************************************************************************)
Absent == [exists |-> FALSE]
File(content, mode) == [exists |-> TRUE, content |-> content, mode |-> mode]

\* the permission bits of a newly created file, and 0o600
Mode == [default |-> "0o644", ownerOnly |-> "0o600"]

\* fs.chmodSync(path, 0o600), which may fail
chmod600(file, chmodOk) == IF file.exists /\ chmodOk THEN [file EXCEPT !.mode = Mode.ownerOnly] ELSE file

\* setSecureFilePermissions, were a file that cannot be restricted not kept
setSecureFilePermissions_orNothing(file, chmodOk) ==
  IF chmodOk THEN chmod600(file, chmodOk) ELSE Absent

\* setSecureFilePermissions: a failure is logged, not thrown
setSecureFilePermissions(file, chmodOk) == chmod600(file, chmodOk)

\* secureExportFile, were the file rewritten to restrict it
secureExportFile_rewriting(file, chmodOk) ==
  IF file.exists THEN File(<<>>, Mode.ownerOnly) ELSE file

\* secureExportFile: only if the file exists; a failure is logged, not thrown
secureExportFile(file, chmodOk) == IF file.exists THEN chmod600(file, chmodOk) ELSE file

\* fs.writeFileSync: the content is replaced, an existing file keeps its mode
writeFileSync(file, content) ==
  File(content, IF file.exists THEN file.mode ELSE Mode.default)

\* readSecureFile, were a token that fails to decrypt returned as it is
readSecureFile_fallback(file) ==
  IF isEncrypted(file.content) /\ decryptData(file.content).ok THEN decryptData(file.content)
  ELSE [ok |-> TRUE, text |-> file.content]

readSecureFile(file) ==
  IF isEncrypted(file.content) THEN decryptData(file.content)
  ELSE [ok |-> TRUE, text |-> file.content]

\* writeSecureFile: the file holds the text that the UTF-8 bytes written spell
writeSecureFile(file, data, encrypt, iv, chmodOk) ==
  LET content == IF encrypt THEN encryptData(iv, data) ELSE data
  IN  setSecureFilePermissions(writeFileSync(file, utf8Decode(utf8Encode(content))), chmodOk)


(***************************************************************************)
(* Paths (sequences of segments) and the resolution of the export file     *)
(***************************************************************************)
HOME == <<"Users", "alice">>

DEFAULT_EXPORT_PATHS ==
  <<HOME \o <<"Downloads", "nordpass-export.csv">>,
    HOME \o <<"Desktop", "nordpass-export.csv">>,
    HOME \o <<"Documents", "nordpass-export.csv">>>>

nordpassDir == HOME \o <<".nordpass">>

\* the characters of the file names that ~/.nordpass can hold, in the order
\* fs.readdirSync lists them
nordpassDirNames == <<"NordPass-b.CSV", "export.csv", "nordpass-a.csv">>

nameChars(name) ==
  IF name = "NordPass-b.CSV" THEN <<"N","o","r","d","P","a","s","s","-","b",".","C","S","V">>
  ELSE IF name = "export.csv" THEN <<"e","x","p","o","r","t",".","c","s","v">>
  ELSE <<"n","o","r","d","p","a","s","s","-","a",".","c","s","v">>

AllPaths == Range(DEFAULT_EXPORT_PATHS) \cup {nordpassDir \o <<n>> : n \in Range(nordpassDirNames)}

ScannedPaths == {nordpassDir \o <<n>> : n \in {"NordPass-b.CSV", "nordpass-a.csv"}}

existsSync(F, path) == path \in DOMAIN F /\ F[path].exists

endsWith(s, suffix) ==
  Len(s) >= Len(suffix) /\ SubSeq(s, Len(s) - Len(suffix) + 1, Len(s)) = suffix

includes(s, sub) ==
  \E i \in 1..(Len(s) - Len(sub) + 1) : SubSeq(s, i, i + Len(sub) - 1) = sub

looksLikeExport(name) ==
  /\ endsWith(toLowerCase(nameChars(name)), <<".","c","s","v">>)
  /\ includes(toLowerCase(nameChars(name)), <<"n","o","r","d","p","a","s","s">>)

\* findNordPassExportInDirectory, were the sort oldest first
findNordPassExportInDirectory_oldestFirst(F, M, dirPath) ==
  Let(SelectSeq(SelectSeq(nordpassDirNames, LAMBDA n : existsSync(F, dirPath \o <<n>>)),
                looksLikeExport), LAMBDA exportFiles :
    LET time(i) == M[dirPath \o <<exportFiles[i]>>]
        first == CHOOSE i \in 1..Len(exportFiles) :
                   /\ \A j \in 1..Len(exportFiles) : time(j) >= time(i)
                   /\ \A j \in 1..(i - 1) : time(j) > time(i)
    IN  IF Len(exportFiles) > 0 THEN dirPath \o <<exportFiles[first]>> ELSE <<>>)

\* the most recently modified export of the directory, the first listed
\* among equally recent ones (the sort is stable); <<>> for null
findNordPassExportInDirectory(F, M, dirPath) ==
  Let(SelectSeq(SelectSeq(nordpassDirNames, LAMBDA n : existsSync(F, dirPath \o <<n>>)),
                looksLikeExport), LAMBDA exportFiles :
    LET time(i) == M[dirPath \o <<exportFiles[i]>>]
        first == CHOOSE i \in 1..Len(exportFiles) :
                   /\ \A j \in 1..Len(exportFiles) : time(j) <= time(i)
                   /\ \A j \in 1..(i - 1) : time(j) < time(i)
    IN  IF Len(exportFiles) > 0 THEN dirPath \o <<exportFiles[first]>> ELSE <<>>)

expandTilde(filePath) ==
  IF Len(filePath) > 1 /\ filePath[1] = "~" THEN HOME \o Tail(filePath) ELSE filePath

firstExisting(F, paths) ==
  LET hits == {i \in 1..Len(paths) : existsSync(F, paths[i])}
  IN  IF hits = {} THEN <<>> ELSE paths[CHOOSE i \in hits : \A j \in hits : i <= j]

\* getExportFilePath, were the configured path returned without the existsSync test
getExportFilePath_unchecked(F, M, pf) ==
  IF pf # <<>> THEN expandTilde(pf)
  ELSE IF firstExisting(F, DEFAULT_EXPORT_PATHS) # <<>> THEN firstExisting(F, DEFAULT_EXPORT_PATHS)
  ELSE findNordPassExportInDirectory(F, M, nordpassDir)

\* getExportFilePath: the resolved path, <<>> for null
getExportFilePath(F, M, pf) ==
  IF pf # <<>> /\ existsSync(F, expandTilde(pf)) THEN expandTilde(pf)
  ELSE IF firstExisting(F, DEFAULT_EXPORT_PATHS) # <<>> THEN firstExisting(F, DEFAULT_EXPORT_PATHS)
  ELSE findNordPassExportInDirectory(F, M, nordpassDir)


(***************************************************************************)
(* The export files the user saves                                         *)
(***************************************************************************)
\* two exports of one row; one of three rows: a card, a note, and a row
\* without a type; one with a quoted field that is never closed, whose
\* parse fails
Src ==
  [urlAa |-> <<"u","r","l","\n","A","a">>,
   urlBB |-> <<"u","r","l","\n","B","B">>,
   mixed |-> <<"t","y","p","e",",","u","r","l","\n","c","a","r","d",",","x","\n",
               "n","o","t","e",",","y","\n",",","z">>,
   unclosed |-> <<"u","r","l","\n","\"","A">>]

SourceContents == {Src.urlAa, Src.urlBB, Src.mixed, Src.unclosed}

\* what parseExportFile and calculateFileHash give for each of them,
\* computed once
parsedContents == [c \in SourceContents |-> parseExportFile(c)]
hashedContents == [c \in SourceContents |-> calculateFileHash(c)]

\* parseExportFile(filePath), calculateFileHash(filePath): fs.readFileSync
\* then the function of the content
parseExportFileAt(file) ==
  IF file.content \in SourceContents THEN parsedContents[file.content]
  ELSE parseExportFile(file.content)

calculateFileHashAt(file) ==
  IF file.content \in SourceContents THEN hashedContents[file.content]
  ELSE calculateFileHash(file.content)

(***************************************************************************)
(* The cache manager.  Each handler is an operator from the files, the     *)
(* clock and what the environment answers (the random iv, whether unlink,  *)
(* chmod succeed) to the handler's outcome: the value  *)
(* returned or the error thrown, and the files as it leaves them.          *)
(***************************************************************************)
\* loadCachedData: the parsed cache (JNull for null), and the cache file after
\* loadCachedData, were the file removed once it is loaded
loadCachedData_consuming(cacheFile, io) ==
  IF ~cacheFile.exists THEN [value |-> JNull, cache |-> cacheFile, how |-> "absent"]
  ELSE Let(readSecureFile(cacheFile), LAMBDA read :
       Let(JSONparse(read.text), LAMBDA parsed :
         IF read.ok /\ parsed.ok
         THEN [value |-> parsed.value, cache |-> Absent, how |-> "loaded"]
         ELSE [value |-> JNull,
               cache |-> IF io.unlinkOk THEN Absent ELSE cacheFile,
               how |-> "failed"]))

loadCachedData(cacheFile, io) ==
  IF ~cacheFile.exists THEN [value |-> JNull, cache |-> cacheFile, how |-> "absent"]
  ELSE Let(readSecureFile(cacheFile), LAMBDA read :
       Let(JSONparse(read.text), LAMBDA parsed :
         IF read.ok /\ parsed.ok
         THEN [value |-> parsed.value, cache |-> cacheFile, how |-> "loaded"]
         ELSE [value |-> JNull,
               cache |-> IF io.unlinkOk THEN Absent ELSE cacheFile,
               how |-> "failed"]))

\* exportChanged, were the hashes never compared
exportChanged_never(cached, file) == FALSE

\* exportChanged, were every loaded cache taken as out of date
exportChanged_always(cached, file) == TRUE

\* the export file has changed: its hash is not the one the cache stores
exportChanged(cached, file) ==
  Prop(cached, "exportFileHash") # Str(calculateFileHashAt(file))

\* saveCachedData, were an existing cache file left as it is
saveCachedData_onlyIfAbsent(cacheFile, data, iv, io) ==
  IF cacheFile.exists THEN cacheFile
  ELSE writeSecureFile(cacheFile, JSONstringify(data), TRUE, iv, io.chmodOk)

\* saveCachedData: the cache file after
saveCachedData(cacheFile, data, iv, io) ==
  writeSecureFile(cacheFile, JSONstringify(data), TRUE, iv, io.chmodOk)

\* Thrown, were the cache file removed when a handler fails
Thrown_clearing(err, F, cacheFile) ==
  [ok |-> FALSE, err |-> err, result |-> JNull, fs |-> F, cache |-> Absent,
   rebuilds |-> 0, wrote |-> FALSE]

\* a handler throws: nothing is returned, the files stay as they are
Thrown(err, F, cacheFile) ==
  [ok |-> FALSE, err |-> err, result |-> JNull, fs |-> F, cache |-> cacheFile,
   rebuilds |-> 0, wrote |-> FALSE]

refreshCache(F, M, pf, cacheFile, t, iv, io) ==
  Let(getExportFilePath(F, M, pf), LAMBDA exportFilePath :
  IF exportFilePath = <<>> THEN Thrown("not configured", F, cacheFile)
  ELSE IF ~existsSync(F, exportFilePath) THEN Thrown("not found at path", F, cacheFile)
  ELSE
  Let(parseExportFileAt(F[exportFilePath]), LAMBDA parsed :
  IF ~parsed.ok THEN [Thrown("parse failed", F, cacheFile) EXCEPT !.rebuilds = 1]
  ELSE
  Let([F EXCEPT ![exportFilePath] = secureExportFile(@, io.exportChmodOk)], LAMBDA secured :
  Let(calculateFileHashAt(secured[exportFilePath]), LAMBDA exportFileHash :
  Let(JObject([passwords |-> parsed.passwords,
               creditCards |-> parsed.creditCards,
               secureNotes |-> parsed.secureNotes,
               lastUpdated |-> t,
               exportFileHash |-> Str(exportFileHash)]), LAMBDA cachedData :
    [ok |-> TRUE, err |-> "", result |-> cachedData, fs |-> secured,
     cache |-> saveCachedData(cacheFile, cachedData, iv, io),
     rebuilds |-> 1, wrote |-> TRUE])))))

\* cached is truthy
truthyValue(v) == v.j # "null"

getCachedData(forceRefresh, F, M, pf, cacheFile, t, iv, io) ==
  Let(getExportFilePath(F, M, pf), LAMBDA exportFilePath :
  LET none == [load |-> "none", deleted |-> FALSE, unlinkErr |-> FALSE]
  IN
  IF exportFilePath = <<>>
  THEN Thrown("not configured", F, cacheFile) @@ none @@ [refresh |-> FALSE]
  ELSE IF forceRefresh
  THEN refreshCache(F, M, pf, cacheFile, t, iv, io) @@ none @@ [refresh |-> TRUE]
  ELSE
  Let(loadCachedData(cacheFile, io), LAMBDA loaded :
    LET cached == loaded.value
        did == [load |-> loaded.how, deleted |-> cacheFile.exists /\ ~loaded.cache.exists,
                unlinkErr |-> loaded.how = "failed" /\ ~io.unlinkOk]
    IN
    IF ~truthyValue(cached)
    THEN refreshCache(F, M, pf, loaded.cache, t, iv, io) @@ did @@ [refresh |-> TRUE]
    ELSE IF existsSync(F, exportFilePath) /\ exportChanged(cached, F[exportFilePath])
    THEN refreshCache(F, M, pf, loaded.cache, t, iv, io) @@ did @@ [refresh |-> TRUE]
    ELSE [ok |-> TRUE, err |-> "", result |-> cached, fs |-> F, cache |-> loaded.cache,
          rebuilds |-> 0, wrote |-> FALSE] @@ did @@ [refresh |-> FALSE]))

\* clearCache, without the existsSync test and the catch
clearCache_unguarded(cacheFile, io) ==
  IF cacheFile.exists /\ io.unlinkOk THEN [ok |-> TRUE, cache |-> Absent, unlinkErr |-> FALSE]
  ELSE [ok |-> FALSE, cache |-> cacheFile, unlinkErr |-> cacheFile.exists]

\* clearCache: whether it returned normally, and the cache file after; an
\* unlink error is logged, not thrown
clearCache(cacheFile, io) ==
  IF ~cacheFile.exists THEN [ok |-> TRUE, cache |-> cacheFile, unlinkErr |-> FALSE]
  ELSE IF io.unlinkOk THEN [ok |-> TRUE, cache |-> Absent, unlinkErr |-> FALSE]
  ELSE [ok |-> TRUE, cache |-> cacheFile, unlinkErr |-> TRUE]

(***************************************************************************)
(* The cache files the model starts from                                   *)
(***************************************************************************)

configuredPath == <<"~", ".nordpass", "export.csv">>

Preferences == {<<>>, configuredPath}

\* the places the user saves exports to
ExportPaths == {expandTilde(configuredPath)}

\* the CachedData refreshCache assembles from a content at time t
cachedDataOf(content, t) ==
  LET parsed == parsedContents[content]
  IN  JObject([passwords |-> parsed.passwords, creditCards |-> parsed.creditCards,
               secureNotes |-> parsed.secureNotes, lastUpdated |-> t,
               exportFileHash |-> Str(hashedContents[content])])

\* a cache file that is not JSON at all; one holding the JSON text null; one
\* written before the cache was encrypted; a legacy one without a
\* fingerprint; one encrypted on another machine; one whose ciphertext was
\* changed after it was written
CacheFiles ==
  [garbage |-> File(Chars(<<"{","x">>), Mode.default),
   null |-> File(JsonText(JNull), Mode.default),
   legacy |-> File(JSONstringify(cachedDataOf(Src.urlAa, 0)), Mode.default),
   legacyNoHash |->
     File(JSONstringify([cachedDataOf(Src.mixed, 0) EXCEPT !.props.exportFileHash = Undefined]),
          Mode.default),
   foreign |->
     File(encryptDataWith(deriveEncryptionKeyOf(SystemInfo.other), 1,
                          JSONstringify(cachedDataOf(Src.urlAa, 0))), Mode.ownerOnly),
   tampered |->
     LET key == deriveEncryptionKey
         iv == randomBytes(1)
         written == cipherOf(key, iv, utf8Encode(JSONstringify(cachedDataOf(Src.urlAa, 0))))
         changed == cipherOf(key, iv, utf8Encode(JSONstringify(cachedDataOf(Src.urlBB, 0))))
     IN  File(JsonText(JObject([iv |-> toHex(iv), authTag |-> toHex(authTagOf(key, iv, written)),
                                encrypted |-> toHex(changed)])), Mode.ownerOnly)]

InitialCaches ==
  {Absent} \cup {CacheFiles[kind] : kind \in DOMAIN CacheFiles}

(***************************************************************************)
(* State machine                                                           *)
(***************************************************************************)
NoCall == [op |-> "none", force |-> FALSE, ok |-> TRUE, err |-> "", result |-> JNull,
           slice |-> <<>>, load |-> "none", deleted |-> FALSE, unlinkErr |-> FALSE,
           refresh |-> FALSE, rebuilds |-> 0, wrote |-> FALSE]

Init ==
  /\ fs = [p \in AllPaths |-> Absent]
  /\ mtime = [p \in ScannedPaths |-> 0]
  /\ cache \in InitialCaches
  /\ pref \in Preferences
  /\ now = 0
  /\ last = NoCall

Called(op, force, out, slice) ==
  [op |-> op, force |-> force, ok |-> out.ok, err |-> out.err, result |-> out.result,
   slice |-> slice, load |-> out.load, deleted |-> out.deleted, unlinkErr |-> out.unlinkErr,
   refresh |-> out.refresh, rebuilds |-> out.rebuilds, wrote |-> out.wrote]

Io(unlinkOk, chmodOk, exportChmodOk) ==
  [unlinkOk |-> unlinkOk, chmodOk |-> chmodOk, exportChmodOk |-> exportChmodOk]

\* getCachedData(forceRefresh), called by a command; a forced refresh never
\* unlinks
GetCachedData(forceRefresh) ==
  \E iv \in 1..NumIvs, unlinkOk \in (IF forceRefresh THEN {TRUE} ELSE BOOLEAN),
     chmodOk \in BOOLEAN, exportChmodOk \in BOOLEAN :
    \E out \in {getCachedData(forceRefresh, fs, mtime, pref, cache, now, iv,
                                Io(unlinkOk, chmodOk, exportChmodOk))} :
        /\ fs' = out.fs
        /\ cache' = out.cache
        /\ last' = Called("get", forceRefresh, out, <<>>)
        /\ UNCHANGED <<mtime, pref, now>>

\* refreshCache(), called by a command on Cmd+R
RefreshCache ==
  \E iv \in 1..NumIvs, chmodOk \in BOOLEAN, exportChmodOk \in BOOLEAN :
    \E out \in {refreshCache(fs, mtime, pref, cache, now, iv, Io(TRUE, chmodOk, exportChmodOk))
                   @@ [load |-> "none", deleted |-> FALSE, unlinkErr |-> FALSE, refresh |-> TRUE]} :
        /\ fs' = out.fs
        /\ cache' = out.cache
        /\ last' = Called("refresh", TRUE, out, <<>>)
        /\ UNCHANGED <<mtime, pref, now>>

\* clearCache()
ClearCache ==
  \E unlinkOk \in BOOLEAN :
    \E out \in {clearCache(cache, Io(unlinkOk, TRUE, TRUE))} :
        /\ cache' = out.cache
        /\ last' = [NoCall EXCEPT !.op = "clear", !.ok = out.ok, !.unlinkErr = out.unlinkErr,
                                  !.deleted = cache.exists /\ ~out.cache.exists]
        /\ UNCHANGED <<fs, mtime, pref, now>>

\* the property of CachedData each typed accessor returns
Accessors == [getPasswords |-> "passwords", getCreditCards |-> "creditCards",
              getSecureNotes |-> "secureNotes"]

\* getPasswords(), getCreditCards(), getSecureNotes()
TypedAccessor ==
  \E iv \in 1..NumIvs, unlinkOk \in BOOLEAN, chmodOk \in BOOLEAN, exportChmodOk \in BOOLEAN :
    \E out \in {getCachedData(FALSE, fs, mtime, pref, cache, now, iv,
                                Io(unlinkOk, chmodOk, exportChmodOk))} :
        /\ fs' = out.fs
        /\ cache' = out.cache
        /\ \E op \in DOMAIN Accessors :
             LET has == out.ok /\ out.result.j = "object" /\ Accessors[op] \in DOMAIN out.result.props
             IN  last' = Called(op, FALSE, out, IF has THEN out.result.props[Accessors[op]] ELSE <<>>)
        /\ UNCHANGED <<mtime, pref, now>>

\* time passes
Tick ==
  /\ now < MaxClock
  /\ now' = now + 1
  /\ UNCHANGED <<fs, mtime, cache, pref, last>>

\* the user saves an export
ExportWrite ==
  \E p \in ExportPaths, c \in SourceContents :
    /\ fs' = [fs EXCEPT ![p] = writeFileSync(@, c)]
    /\ last' = [NoCall EXCEPT !.op = "env"]
    /\ UNCHANGED <<mtime, cache, pref, now>>

\* the user deletes an export
ExportDelete ==
  \E p \in ExportPaths :
    /\ fs[p].exists
    /\ fs' = [fs EXCEPT ![p] = Absent]
    /\ last' = [NoCall EXCEPT !.op = "env"]
    /\ UNCHANGED <<mtime, cache, pref, now>>

\* the user changes the preference in Raycast
SetPreference ==
  \E pf \in Preferences :
    /\ pf # pref
    /\ pref' = pf
    /\ last' = [NoCall EXCEPT !.op = "env"]
    /\ UNCHANGED <<fs, mtime, cache, now>>

Next ==
  \/ GetCachedData(FALSE)
  \/ GetCachedData(TRUE)
  \/ RefreshCache
  \/ ClearCache
  \/ TypedAccessor
  \/ Tick
  \/ ExportWrite
  \/ ExportDelete
  \/ SetPreference

Spec == Init /\ [][Next]_vars


(***************************************************************************)
(* The ingestion on its own: the user saves an export made of a header and *)
(* rows, and parseExportFile is called on it.  The rows are drawn from     *)
(* layouts that put the classification and each list of accepted           *)
(* spellings to the test.                                                  *)
(***************************************************************************)
\* the rows a saved export has at most
MaxRows == 2

upperChar(c) == IF c \in Range(Alphabet.lower) THEN Alphabet.upper[IndexOf(Alphabet.lower, c)] ELSE c

toUpperCase(s) == [i \in 1..Len(s) |-> upperChar(s[i])]

\* the values of the switch in parseExportFile
RecognizedTypes ==
  {Column.password, Column.login, ItemType.creditcard, ItemType.credit_card, ItemType.card, Column.note, ItemType.securenote, ItemType.secure_note}

\* what the type column of a row holds: nothing, a recognized type in lower,
\* upper or mixed case, or something else
TypeValues ==
  {<<>>, <<"f","o","o">>} \cup RecognizedTypes \cup {toUpperCase(t) : t \in RecognizedTypes}
    \cup {ItemType.creditCard, ItemType.secureNote}

\* the fields of the rows: each holds nothing or its own value; the i-th
\* spelling of a list holds the i-th value of spelling when it holds one
Value ==
  [password |-> <<"p","w">>,
   cardNumber |-> <<"4","1">>,
   note |-> <<"m","e","m","o">>,
   spelling |-> <<<<"a","1">>, <<"b","2">>, <<"c","3">>>>]

classifyColumns == <<Column.type, Column.password, Column.cardNumber, Column.note>>

ClassifyRows ==
  {<<t, p, c, n>> : t \in TypeValues, p \in {<<>>, Value.password},
                    c \in {<<>>, Value.cardNumber}, n \in {<<>>, Value.note}}

\* the lists of accepted spellings of parsePassword, parseCreditCard and
\* parseSecureNote, in the order of their || chains
Synonyms ==
  {<<Column.name, Column.title>>, <<Column.url, Column.website>>, <<Column.username, Column.login>>, <<Column.note, Column.notes>>,
   <<Column.folder, Column.category>>, <<Column.cardNumber, Column.card_number, Column.number>>,
   <<Column.expiryDate, Column.expiry_date, Column.expiry>>, <<Column.cvv, Column.cvc, Column.securityCode>>,
   <<Column.cardholderName, Column.cardholder_name, Column.cardholder>>}


SynonymRows(list) ==
  {<<t>> \o [i \in 1..Len(list) |-> IF i \in held THEN Value.spelling[i] ELSE <<>>] :
     t \in {<<>>, Column.password, ItemType.card, Column.note}, held \in SUBSET (1..Len(list))}

\* the two exports of the documentation
Example ==
  [credentialColumns |-> <<Column.name, Column.username, Column.password, Column.url>>,
   credentialRow |->
     <<<<"E","x","a","m","p","l","e">>, <<"a","l","i","c","e">>, <<"s","3","c","r","3","t">>,
       <<"h","t","t","p","s",":","/","/","e","x","a","m","p","l","e",".","c","o","m">>>>,
   cardColumns |-> <<Column.name, Column.cardNumber, Column.expiryDate, Column.cvv>>,
   cardRow |->
     <<<<"V","i","s","a">>, <<"4","1","1","1","1","1","1","1","1","1","1","1","1","1","1","1">>,
       <<"1","2","/","2","7">>, <<"1","2","3">>>>]

\* the fields of a line, separated by commas
RECURSIVE csvLine(_)
csvLine(fields) ==
  IF Len(fields) = 0 THEN <<>>
  ELSE IF Len(fields) = 1 THEN fields[1]
  ELSE fields[1] \o <<",">> \o csvLine(Tail(fields))

\* an export of one row under its header
csvExport(columns, row) == csvLine(columns) \o <<"\n">> \o csvLine(row)

\* the exports the user saves first
FirstExports ==
  {csvExport(classifyColumns, r) : r \in ClassifyRows}
    \cup UNION {{csvExport(<<Column.type>> \o list, r) : r \in SynonymRows(list)} : list \in Synonyms}
    \cup {csvExport(Example.credentialColumns, Example.credentialRow), csvExport(Example.cardColumns, Example.cardRow)}

\* the rows the NordPass export adds to a file of the classification layout
MoreRows == {<<<<"f","o","o">>, <<>>, <<>>, <<>>>>, <<ItemType.card, Value.password, <<>>, <<>>>>,
             <<<<>>, <<>>, <<>>, Value.note>>}

exportPath == expandTilde(configuredPath)

\* the rows of a content: its lines after the header
rowCount(content) == Cardinality({i \in 1..Len(content) : content[i] = "\n"})

\* the first line of a content is the header of these columns
hasHeader(content, columns) ==
  /\ Len(content) > Len(csvLine(columns))
  /\ SubSeq(content, 1, Len(csvLine(columns)) + 1) = csvLine(columns) \o <<"\n">>

IngestInit ==
  /\ \E c \in FirstExports : fs = [p \in AllPaths |-> IF p = exportPath THEN File(c, Mode.default) ELSE Absent]
  /\ mtime = [p \in ScannedPaths |-> 0]
  /\ cache = Absent
  /\ pref = configuredPath
  /\ now = 0
  /\ last = NoCall

\* NordPass exports one more item to the file
AppendRow ==
  \E r \in MoreRows :
    /\ rowCount(fs[exportPath].content) < MaxRows
    /\ hasHeader(fs[exportPath].content, classifyColumns)
    /\ fs' = [fs EXCEPT ![exportPath] = writeFileSync(@, @.content \o <<"\n">> \o csvLine(r))]
    /\ last' = [NoCall EXCEPT !.op = "env"]
    /\ UNCHANGED <<mtime, cache, pref, now>>

\* parseExportFile(filePath) on the export: what it read, whether it
\* returned, and the three lists it returned
ParseExportFile ==
  \E parsed \in {parseExportFile(fs[exportPath].content)} :
    /\ last' = [op |-> "parseExportFile", content |-> fs[exportPath].content, ok |-> parsed.ok,
                passwords |-> parsed.passwords, creditCards |-> parsed.creditCards,
                secureNotes |-> parsed.secureNotes]
    /\ UNCHANGED <<fs, mtime, cache, pref, now>>

IngestNext == AppendRow \/ ParseExportFile

IngestSpec == IngestInit /\ [][IngestNext]_vars

(***************************************************************************)
(* The codec on its own.  `cache` is the secure file; `last` is the last   *)
(* step: the string the file was written from (data), whether it was       *)
(* encrypted, the machine whose key encrypted it (by), what was changed in *)
(* the token afterwards, and the last call made on the file, the machine   *)
(* it ran on and what it returned.                                         *)
(***************************************************************************)
Machines == {SystemInfo.this, SystemInfo.other}

\* the strings given to encryptData and writeSecureFile: empty, ASCII,
\* non-ASCII, a surrogate pair, surrogates that stand alone, the JSON text of
\* a snapshot and a string that is itself a token
Plaintexts ==
  {Chars(<<>>), Chars(<<"a">>), Chars(<<"U+00E9", "U+65E5">>),
   Chars(<<Utf16.high, Utf16.low>>), Chars(<<Utf16.high>>),
   Chars(<<Utf16.low, "a", Utf16.high>>),
   JSONstringify(cachedDataOf(Src.urlAa, 0)),
   encryptData(1, Chars(<<"a">>))}

\* a string no surrogate of which stands alone
wellFormed(text) == text.t = "chars" => \A i \in 1..Len(text.s) : wellFormedAt(text.s, i)

\* the changes to one hex field of a token: other bytes of the same length,
\* a letter digit written in the other case, a character that is no hex digit
\* after 12 or after 3 bytes
Changes == {"bytes", "upper", "cut12", "cut3"}

\* the ciphertext with bits flipped: in counter mode, the ciphertext of the
\* plaintext with the same bits flipped
changedField(token, part, how, other) ==
  LET h == token.props[part]
      ct == token.props.encrypted.hex
  IN  CASE how = "upper" -> [h EXCEPT !.as = "upper"]
        [] how = "cut12" -> [hex |-> h.hex, as |-> "cut", left |-> 12]
        [] how = "cut3" -> [hex |-> h.hex, as |-> "cut", left |-> 3]
        [] how = "bytes" /\ part = "encrypted" -> toHex([ct EXCEPT !.pt = utf8Encode(other)])
        [] how = "bytes" /\ part = "authTag" ->
             toHex(authTagOf(ct.key, ct.iv, [ct EXCEPT !.pt = utf8Encode(other)]))

changeToken(content, part, how, other) ==
  JsonText(JObject([content.v.props EXCEPT ![part] = changedField(content.v, part, how, other)]))

CodecStart ==
  [op |-> "none", data |-> Chars(<<>>), encrypt |-> FALSE, by |-> SystemInfo.this, part |-> "none",
   how |-> "none", on |-> SystemInfo.this, ok |-> TRUE, text |-> Chars(<<>>)]

CodecInit ==
  /\ fs = [p \in AllPaths |-> Absent]
  /\ mtime = [p \in ScannedPaths |-> 0]
  /\ cache = Absent
  /\ pref = configuredPath
  /\ now = 0
  /\ last = CodecStart

\* writeSecureFile(filePath, data, encrypt) on this machine
WriteSecureFile ==
  \E data \in Plaintexts, encrypt \in BOOLEAN, n \in 1..NumIvs, chmodOk \in BOOLEAN :
    /\ cache' = writeSecureFile(cache, data, encrypt, n, chmodOk)
    /\ last' = [CodecStart EXCEPT !.op = "writeSecureFile", !.data = data, !.encrypt = encrypt]
    /\ UNCHANGED <<fs, mtime, pref, now>>

\* the file is replaced by one that another machine encrypted
CopyFromOtherMachine ==
  \E data \in Plaintexts, n \in 1..NumIvs :
    /\ cache' = File(encryptDataWith(deriveEncryptionKeyOf(SystemInfo.other), n, data), Mode.ownerOnly)
    /\ last' = [CodecStart EXCEPT !.op = "copy", !.data = data, !.encrypt = TRUE,
                                  !.by = SystemInfo.other]
    /\ UNCHANGED <<fs, mtime, pref, now>>

\* the ciphertext or the tag of the token in the file is changed, once
ChangeToken ==
  \E part \in {"encrypted", "authTag"}, how \in Changes, other \in Plaintexts :
    /\ cache.exists /\ last.encrypt /\ last.how = "none"
    /\ hexTruthy(cache.content.v.props[part])
    /\ how = "bytes" => utf8Encode(other) \notin {utf8Encode(last.data), utf8Encode(Chars(<<>>))}
    /\ how # "bytes" => other = Chars(<<>>)
    /\ cache' = [cache EXCEPT !.content = changeToken(@, part, how, other)]
    /\ last' = [last EXCEPT !.op = "change", !.part = part, !.how = how]
    /\ UNCHANGED <<fs, mtime, pref, now>>

\* decryptData(content of the file), on either machine
DecryptData ==
  \E info \in Machines :
    /\ cache.exists
    /\ \E out \in {decryptDataWith(deriveEncryptionKeyOf(info), cache.content)} :
         last' = [last EXCEPT !.op = "decryptData", !.on = info, !.ok = out.ok, !.text = out.text]
    /\ UNCHANGED <<fs, mtime, cache, pref, now>>

\* readSecureFile(filePath) on this machine
ReadSecureFile ==
  /\ cache.exists
  /\ \E out \in {readSecureFile(cache)} :
       last' = [last EXCEPT !.op = "readSecureFile", !.on = SystemInfo.this, !.ok = out.ok,
                            !.text = out.text]
  /\ UNCHANGED <<fs, mtime, cache, pref, now>>

CodecNext == WriteSecureFile \/ CopyFromOtherMachine \/ ChangeToken \/ DecryptData \/ ReadSecureFile

CodecSpec == CodecInit /\ [][CodecNext]_vars


(***************************************************************************)
(* Vocabulary of the properties                                            *)
(***************************************************************************)
\* the calls that run getCachedData
GetOps == {"get"} \cup DOMAIN Accessors
CallOps == GetOps \cup {"refresh", "clear"}

\* this step is a call of one of ops: the clock stands still during a call,
\* and every other step that leaves it alone records itself in last
Calls(ops) == now' = now /\ last'.op \in ops

\* the last call was getCachedData(false), directly or by a typed accessor
GotUnforced == last.op \in GetOps /\ ~last.force

\* the export file the calls resolve, <<>> when none
resolved == getExportFilePath(fs, mtime, pref)

\* the three sequences of a CachedData, as JSON shows them
entitiesOf(data) ==
  [passwords |-> stringifyList(data.props.passwords),
   creditCards |-> stringifyList(data.props.creditCards),
   secureNotes |-> stringifyList(data.props.secureNotes)]

\* the cache file is an encrypted token this machine can read back as JSON
ReadableToken(file) ==
  /\ file.exists
  /\ isEncrypted(file.content)
  /\ decryptData(file.content).ok
  /\ JSONparse(decryptData(file.content).text).ok

\* the cache file contents that cannot be decrypted or parsed
UnreadableContents == {CacheFiles.garbage.content, CacheFiles.foreign.content, CacheFiles.tampered.content}

(***************************************************************************)
(* C1  Freshness: when getCachedData(false) returns and the export file    *)
(* exists, the fingerprint in the returned snapshot is the fingerprint of  *)
(* the export file's current content; a loaded snapshot with another       *)
(* fingerprint is not returned without a rebuild.                          *)
(***************************************************************************)
C1_Freshness ==
  (GotUnforced /\ last.ok /\ resolved # <<>>) =>
     Prop(last.result, "exportFileHash") = Str(calculateFileHash(fs[resolved].content))

\* a stale snapshot was loaded and rebuilt
C1_Witness ==
  /\ GotUnforced /\ last.ok /\ resolved # <<>>
  /\ last.load = "loaded" /\ last.rebuilds = 1

(***************************************************************************)
(* C2  Idempotent freshness: of two getCachedData(false) in a row with the *)
(* export file unchanged, the first rebuilds at most once, and not at all  *)
(* only when it loaded a cache; the second rebuilds nothing, returns the   *)
(* snapshot the first returned and leaves the cache file as it is, which   *)
(* holds that snapshot.                                                    *)
(***************************************************************************)
C2_IdempotentFreshness ==
  [][ (GotUnforced /\ last.ok /\ Calls(GetOps) /\ ~last'.force)
        => /\ last.rebuilds = 0 => last.load = "loaded"
           /\ last.rebuilds = 1 <=> last.wrote
           /\ last'.ok
           /\ last'.rebuilds = 0 /\ ~last'.refresh /\ ~last'.wrote /\ ~last'.deleted
           /\ cache' = cache
           /\ JSONstringify(last'.result) = JSONstringify(last.result)
           /\ JSONparse(readSecureFile(cache').text).value = last'.result ]_vars

\* the second call came after a first call that rebuilt
C2_Witness ==
  /\ last.op = "get" /\ ~last.force /\ last.ok
  /\ last.rebuilds = 0 /\ last.load = "loaded"
  /\ ReadableToken(cache)
  /\ last.result.props.lastUpdated < now

(***************************************************************************)
(* C3  Staleness trigger: after a getCachedData(false) that returns, the   *)
(* entities returned are those parsed from the export file as it is now,   *)
(* whatever the file held at the call before (the cache being one this     *)
(* machine wrote).                                                         *)
(***************************************************************************)
C3_StalenessTrigger ==
  (GotUnforced /\ last.ok /\ resolved # <<>> /\ ReadableToken(cache)) =>
     entitiesOf(last.result) = entitiesOf(cachedDataOf(fs[resolved].content, 0))

(***************************************************************************)
(* C4  Once a snapshot is persisted, deleting the export file does not     *)
(* make the data unavailable: getCachedData(false) with a readable cache   *)
(* and no export file returns the loaded snapshot, without a rebuild.      *)
(***************************************************************************)
C4_ServedWithoutExportFile ==
  (GotUnforced /\ ReadableToken(cache) /\ \A p \in AllPaths : ~fs[p].exists) =>
     /\ last.ok
     /\ last.rebuilds = 0
     /\ last.result = JSONparse(readSecureFile(cache).text).value

(***************************************************************************)
(* C5  A failed rebuild does not overwrite the last good snapshot: when    *)
(* refreshCache, called directly, by getCachedData(true) or by             *)
(* getCachedData(false) on a loaded cache, throws, the error is the        *)
(* rebuild's and the cache file is what it was before the call.            *)
(***************************************************************************)
C5_FailedRebuildKeepsCache ==
  [][ (Calls(GetOps \cup {"refresh"}) /\ last'.refresh /\ ~last'.ok
       /\ (last'.op = "refresh" \/ last'.force \/ last'.load = "loaded"))
        => /\ cache' = cache
           /\ ~last'.wrote /\ ~last'.deleted
           /\ last'.err \in {"not configured", "not found at path", "parse failed"} ]_vars

\* a stale snapshot was loaded, the rebuild failed on the parse, the snapshot is there
C5_Witness ==
  /\ GotUnforced /\ ~last.ok /\ last.refresh /\ last.err = "parse failed"
  /\ last.load = "loaded"
  /\ ReadableToken(cache)

(***************************************************************************)
(* C6  Corrupt-cache recovery, as claimed: on a cache file that cannot be  *)
(* decrypted or parsed, getCachedData(false) does not surface that         *)
(* failure, deletes the file (it is not there after the call) and          *)
(* rebuilds.                                                               *)
(***************************************************************************)
C6_DeletesUnreadableCache ==
  (GotUnforced /\ last.load = "failed") =>
     /\ last.err \in {"", "parse failed"}
     /\ ~(cache.exists /\ cache.content \in UnreadableContents)
     /\ last.refresh

(***************************************************************************)
(* C6, amended: on a cache file that cannot be decrypted or parsed,        *)
(* getCachedData(false) does not surface that failure; it tries to delete  *)
(* the file, which is gone unless the deletion fails, and then does what   *)
(* it does on no cache file: it rebuilds from the export file.             *)
(***************************************************************************)
C6_CorruptCacheRecovery ==
  [][ (cache.exists /\ cache.content \in UnreadableContents
       /\ Calls(GetOps) /\ ~last'.force
       /\ getExportFilePath(fs, mtime, pref) # <<>>)
        => /\ last'.load = "failed"
           /\ last'.deleted # last'.unlinkErr
           /\ last'.refresh /\ last'.rebuilds = 1
           /\ last'.ok => /\ last'.wrote
                          /\ ReadableToken(cache')
                          /\ JSONparse(readSecureFile(cache').text).value
                               = JSONparse(JSONstringify(last'.result)).value
                          /\ entitiesOf(last'.result)
                               = entitiesOf(cachedDataOf(fs[getExportFilePath(fs, mtime, pref)].content, 0))
           /\ ~last'.ok => /\ last'.err = "parse failed"
                           /\ cache' = IF last'.unlinkErr THEN cache ELSE Absent ]_vars

\* a cache from another machine was deleted and rebuilt
C6_Witness ==
  /\ GotUnforced /\ last.load = "failed" /\ last.deleted /\ last.ok /\ last.rebuilds = 1
  /\ ReadableToken(cache)

(***************************************************************************)
(* C7  clearCache never throws and is idempotent: it leaves the cache file *)
(* absent unless the deletion fails, in which case the file is untouched;  *)
(* on an absent file it changes nothing and raises nothing; a second clear *)
(* after one that deleted is a no-op.                                      *)
(***************************************************************************)
C7_ClearCache ==
  [][ Calls({"clear"})
        => /\ last'.ok
           /\ cache'.exists => (last'.unlinkErr /\ cache' = cache)
           /\ ~cache.exists => (cache' = cache /\ ~last'.unlinkErr /\ ~last'.deleted)
           /\ (cache.exists /\ ~last'.unlinkErr) => (~cache'.exists /\ last'.deleted)
           /\ UNCHANGED <<fs, mtime, pref>> ]_vars

\* a clear whose deletion failed: the error is swallowed, the file is there
C7_Witness == last.op = "clear" /\ last.ok /\ last.unlinkErr /\ cache.exists

(***************************************************************************)
(* C8  With no export file resolvable, getCachedData (forced or not)       *)
(* throws the not-configured error before it touches the cache: the cache  *)
(* file is not read, deleted or written, and nothing is rebuilt.           *)
(***************************************************************************)
\* no file exists where the resolution looks
NothingToResolve ==
  \A p \in AllPaths : fs[p].exists => (pref = <<>> /\ p = nordpassDir \o <<"export.csv">>)

C8_NotConfigured ==
  [][ (NothingToResolve /\ Calls(GetOps))
        => /\ ~last'.ok /\ last'.err = "not configured"
           /\ last'.load = "none" /\ ~last'.deleted /\ ~last'.unlinkErr
           /\ ~last'.refresh /\ last'.rebuilds = 0 /\ ~last'.wrote
           /\ cache' = cache /\ fs' = fs ]_vars

\* a forced call failed with a corrupt cache file left in place
C8_Witness ==
  /\ last.op = "get" /\ last.force /\ last.err = "not configured"
  /\ cache.exists /\ cache.content \in UnreadableContents

(***************************************************************************)
(* C9  The export files' contents are never modified: a call creates,      *)
(* deletes and rewrites no export file; the one change it can make is to   *)
(* set the resolved file's permission bits to owner-only, during a         *)
(* rebuild.                                                                *)
(***************************************************************************)
C9_ExportFileReadOnly ==
  [][ Calls(CallOps)
        => \A p \in AllPaths :
             /\ fs'[p].exists = fs[p].exists
             /\ fs[p].exists => fs'[p].content = fs[p].content
             /\ fs'[p] # fs[p] => /\ fs'[p].mode = Mode.ownerOnly
                                  /\ last'.rebuilds = 1 /\ last'.ok
                                  /\ p = getExportFilePath(fs, mtime, pref) ]_vars

\* a rebuild restricted the export file
C9_Witness ==
  /\ last.op \in CallOps /\ last.rebuilds = 1 /\ last.ok
  /\ resolved # <<>> /\ fs[resolved].mode = Mode.ownerOnly

(***************************************************************************)
(* C10  Encrypted at rest: after a getCachedData or refreshCache that      *)
(* returns, the cache file is an encrypted token, also when the call       *)
(* started from an unencrypted cache file.                                 *)
(***************************************************************************)
C10_EncryptedAtRest ==
  (last.op \in GetOps \cup {"refresh"} /\ last.ok) =>
     (cache.exists /\ isEncrypted(cache.content))

(***************************************************************************)
(* Vocabulary of the ingestion properties                                  *)
(***************************************************************************)
\* the last call was parseExportFile and it returned
Parsed == last.op = "parseExportFile" /\ last.ok

\* the rows of the export that call read, as csv-parse gives them
rowsRead == parse(last.content).records

\* the type field of a row is one of these names, in whatever case
typeAmong(record, names) ==
  /\ Truthy(Field(record, Column.type))
  /\ \E t \in names : toUpperCase(Field(record, Column.type).s) = toUpperCase(t)

\* the type field of a row holds one of the recognized types
typeRecognized(record) == typeAmong(record, RecognizedTypes)

\* a row has one of the indicator fields
hasIndicator(record) ==
  hasCreditCardFields(record) \/ hasPasswordFields(record) \/ hasSecureNoteFields(record)

\* classification by field presence: card before credential before note
byPresence(record) ==
  IF hasCreditCardFields(record) THEN "creditCards"
  ELSE IF hasPasswordFields(record) THEN "passwords"
  ELSE IF hasSecureNoteFields(record) THEN "secureNotes"
  ELSE "passwords"

\* classification by the table of recognized types
byType(record) ==
  IF typeAmong(record, {Column.password, Column.login}) THEN "passwords"
  ELSE IF typeAmong(record, {ItemType.creditcard, ItemType.credit_card, ItemType.card}) THEN "creditCards"
  ELSE "secureNotes"

\* how many of the rows read a classification puts in a list
rowsOfKind(classify(_), kind) ==
  Cardinality({i \in 1..Len(rowsRead) : classify(rowsRead[i]) = kind})

(***************************************************************************)
(* C11  Inference precedence: when no row of the export has a recognized   *)
(* type (the type is absent, empty or not in the table) and every row has  *)
(* an indicator field, each list holds as many entities as there are rows  *)
(* that field presence puts there, card indicators before credential       *)
(* indicators before note indicators.                                      *)
(***************************************************************************)
C11_InferencePrecedence ==
  (/\ Parsed
   /\ \A i \in 1..Len(rowsRead) : ~typeRecognized(rowsRead[i]) /\ hasIndicator(rowsRead[i]))
    => /\ Len(last.creditCards) = rowsOfKind(byPresence, "creditCards")
       /\ Len(last.passwords) = rowsOfKind(byPresence, "passwords")
       /\ Len(last.secureNotes) = rowsOfKind(byPresence, "secureNotes")

(***************************************************************************)
(* C12  Every row yields exactly one entity: the three lists together hold *)
(* as many entities as the export has rows, and a row without a recognized *)
(* type and without an indicator field is a credential.                    *)
(***************************************************************************)
C12_EveryRowOneEntity ==
  Parsed =>
    /\ Len(last.passwords) + Len(last.creditCards) + Len(last.secureNotes) = Len(rowsRead)
    /\ (\A i \in 1..Len(rowsRead) : ~typeRecognized(rowsRead[i]) /\ ~hasIndicator(rowsRead[i]))
         => Len(last.passwords) = Len(rowsRead)

(***************************************************************************)
(* C13  Explicit type mapping: when every row of the export has a          *)
(* recognized type, in whatever case it is written, each list holds as     *)
(* many entities as there are rows whose type the table maps to it,        *)
(* whatever other fields the rows carry.                                   *)
(***************************************************************************)
C13_ExplicitTypeMapping ==
  (Parsed /\ \A i \in 1..Len(rowsRead) : typeRecognized(rowsRead[i]))
    => /\ Len(last.passwords) = rowsOfKind(byType, "passwords")
       /\ Len(last.creditCards) = rowsOfKind(byType, "creditCards")
       /\ Len(last.secureNotes) = rowsOfKind(byType, "secureNotes")

\* a row typed CREDIT_CARD that carries a password and no card number, then
\* a row typed card that carries a password, were both read as cards
C13_Witness ==
  /\ Parsed /\ Len(rowsRead) = 2
  /\ Field(rowsRead[1], Column.type) = Str(toUpperCase(ItemType.credit_card))
  /\ Truthy(Field(rowsRead[1], Column.password)) /\ ~Truthy(Field(rowsRead[1], Column.cardNumber))
  /\ Len(last.creditCards) = 2

(***************************************************************************)
(* C14  Field extraction is first-match-wins: every entity returned is,    *)
(* for one of the rows read, the entity whose every logical field is the   *)
(* value of the first spelling of its list that holds a non-empty value    *)
(* in that row, absent when no spelling holds one (the empty string for    *)
(* name, password and the body of a note); the two documented exports      *)
(* give the documented entities.                                           *)
(***************************************************************************)
\* the value of the first spelling of the list that is not empty in the row
firstHeld(record, list, default) ==
  LET held == {i \in 1..Len(list) : Truthy(Field(record, list[i]))}
  IN  IF held = {} THEN default
      ELSE Field(record, list[CHOOSE i \in held : \A j \in held : i <= j])

expectedPassword(record) ==
  [type |-> Str(Column.password),
   name |-> firstHeld(record, <<Column.name, Column.title>>, Str(<<>>)),
   url |-> firstHeld(record, <<Column.url, Column.website>>, Undefined),
   username |-> firstHeld(record, <<Column.username, Column.login>>, Undefined),
   password |-> firstHeld(record, <<Column.password>>, Str(<<>>)),
   note |-> firstHeld(record, <<Column.note, Column.notes>>, Undefined),
   folder |-> firstHeld(record, <<Column.folder, Column.category>>, Undefined)]

expectedCreditCard(record) ==
  [type |-> Str(ItemType.creditCard),
   name |-> firstHeld(record, <<Column.name, Column.title>>, Str(<<>>)),
   cardholderName |-> firstHeld(record, <<Column.cardholderName, Column.cardholder_name, Column.cardholder>>, Undefined),
   cardNumber |-> firstHeld(record, <<Column.cardNumber, Column.card_number, Column.number>>, Undefined),
   expiryDate |-> firstHeld(record, <<Column.expiryDate, Column.expiry_date, Column.expiry>>, Undefined),
   cvv |-> firstHeld(record, <<Column.cvv, Column.cvc, Column.securityCode>>, Undefined),
   note |-> firstHeld(record, <<Column.note, Column.notes>>, Undefined),
   folder |-> firstHeld(record, <<Column.folder, Column.category>>, Undefined)]

expectedSecureNote(record) ==
  [type |-> Str(ItemType.secureNote),
   name |-> firstHeld(record, <<Column.name, Column.title>>, Str(<<>>)),
   note |-> firstHeld(record, <<Column.note, Column.notes>>, Str(<<>>)),
   folder |-> firstHeld(record, <<Column.folder, Column.category>>, Undefined)]

\* the entity the documentation gives for each of its two exports
documentedCredential ==
  [type |-> Str(Column.password), name |-> Str(Example.credentialRow[1]), url |-> Str(Example.credentialRow[4]),
   username |-> Str(Example.credentialRow[2]), password |-> Str(Example.credentialRow[3]),
   note |-> Undefined, folder |-> Undefined]

documentedCardNumber == Str(Example.cardRow[2])

C14_FirstMatchWins ==
  Parsed =>
    /\ \A e \in Range(last.passwords) :
         \E i \in 1..Len(rowsRead) : e = expectedPassword(rowsRead[i])
    /\ \A e \in Range(last.creditCards) :
         \E i \in 1..Len(rowsRead) : e = expectedCreditCard(rowsRead[i])
    /\ \A e \in Range(last.secureNotes) :
         \E i \in 1..Len(rowsRead) : e = expectedSecureNote(rowsRead[i])
    /\ last.content = csvExport(Example.credentialColumns, Example.credentialRow)
         => /\ last.passwords = <<documentedCredential>>
            /\ last.creditCards = <<>> /\ last.secureNotes = <<>>
    /\ last.content = csvExport(Example.cardColumns, Example.cardRow)
         => /\ Len(last.creditCards) = 1 /\ last.creditCards[1].cardNumber = documentedCardNumber
            /\ last.passwords = <<>> /\ last.secureNotes = <<>>

\* a card row whose cardNumber is empty and whose card_number and number
\* both hold a value: the card number is the one of card_number
C14_Witness ==
  /\ Parsed /\ Len(rowsRead) = 1 /\ Len(last.creditCards) = 1
  /\ ~Truthy(Field(rowsRead[1], Column.cardNumber))
  /\ Field(rowsRead[1], Column.card_number) = Str(Value.spelling[2])
  /\ Field(rowsRead[1], Column.number) = Str(Value.spelling[3])
  /\ last.creditCards[1].cardNumber = Str(Value.spelling[2])


(***************************************************************************)
(* Vocabulary of the codec properties                                      *)
(***************************************************************************)
\* decryptData has just run on this machine, on a token this machine made
\* and nobody changed
Decrypted ==
  /\ last.op = "decryptData" /\ last.on = SystemInfo.this
  /\ last.encrypt /\ last.by = SystemInfo.this /\ last.how = "none"

\* x with every surrogate that stands alone replaced by U+FFFD
repaired(x) ==
  IF x.t = "chars"
  THEN Chars([i \in 1..Len(x.s) |->
                IF x.s[i] \in {Utf16.high, Utf16.low} /\ ~wellFormedAt(x.s, i)
                THEN Utf16.replacement ELSE x.s[i]])
  ELSE x

\* C15 as stated: decryptData(encryptData(x)) = x for every string x, in
\* whichever run of this machine the token is decrypted
C15_RoundTripEveryString ==
  Decrypted => last.ok /\ last.text = last.data

\* C15: decryptData(encryptData(x)) = x for every string x in which no
\* surrogate code unit stands alone, the empty string and non-ASCII text
\* included, whenever after the encryption the token is decrypted on the same
\* machine; for any other x the call returns x with each lone surrogate
\* replaced by U+FFFD
C15_RoundTrip ==
  Decrypted =>
    /\ last.ok
    /\ wellFormed(last.data) => last.text = last.data
    /\ last.text = repaired(last.data)

C15_Witness ==
  /\ Decrypted /\ last.ok
  /\ last.data = Chars(<<"U+00E9", "U+65E5">>)
  /\ last.text = last.data


\* decryptData has just run on this machine, on a token this machine made
\* and whose ciphertext or tag was changed afterwards
DecryptedChanged ==
  /\ last.op = "decryptData" /\ last.on = SystemInfo.this
  /\ last.encrypt /\ last.by = SystemInfo.this /\ last.how # "none"

\* the changes after which the token still spells the same ciphertext and a
\* tag that setAuthTag takes: a hex letter in the other case, and the tag cut
\* to 12 bytes
sameBytes == last.how = "upper" \/ (last.how = "cut12" /\ last.part = "authTag")

CopiedCache ==
  /\ cache.exists /\ last.encrypt /\ last.by = SystemInfo.other
  /\ last.data = JSONstringify(cachedDataOf(Src.urlAa, 0))

\* the files with an export at the configured path
withExport == [fs EXCEPT ![exportPath] = File(Src.urlBB, Mode.default)]

\* C17: a token encrypted under the key of one machine identity fails to
\* decrypt under the key of a different one, whatever else was done to it, and
\* no text is returned; a cache file that another machine encrypted is
\* unreadable to loadCachedData, and getCachedData answers from a rebuild of
\* the export (and saves a cache this machine can read), or with the rebuild's
\* error, never with the content of the copied file
C17_CrossMachineFailure ==
  /\ last.op = "decryptData" /\ last.encrypt /\ last.by # last.on
       => ~last.ok /\ last.text = Chars(<<>>)
  /\ CopiedCache =>
       /\ ~readSecureFile(cache).ok
       /\ \A unlinkOk \in BOOLEAN, chmodOk \in BOOLEAN, exportChmodOk \in BOOLEAN :
            LET io == Io(unlinkOk, chmodOk, exportChmodOk)
                rebuilt == getCachedData(FALSE, withExport, mtime, pref, cache, now, 1, io)
                refused == getCachedData(FALSE, fs, mtime, pref, cache, now, 1, io)
            IN  /\ loadCachedData(cache, io).how = "failed"
                /\ loadCachedData(cache, io).value = JNull
                /\ rebuilt.ok /\ rebuilt.refresh /\ rebuilt.wrote
                /\ rebuilt.result = cachedDataOf(Src.urlBB, now)
                /\ readSecureFile(rebuilt.cache).ok
                /\ readSecureFile(rebuilt.cache).text = JSONstringify(rebuilt.result)
                /\ ~refused.ok

C17_Witness ==
  /\ CopiedCache /\ last.how = "none"
  /\ last.op = "decryptData" /\ last.on = SystemInfo.this
  /\ ~last.ok


\* the content parses as JSON with iv, authTag and encrypted
tokenShaped(content) ==
  /\ content.t = "json" /\ content.v.j = "object"
  /\ {"iv", "authTag", "encrypted"} \subseteq DOMAIN content.v.props

\* C18: readSecureFile on a file whose content has the token shape returns
\* what decryptData returns for it and fails when decryptData fails; on any
\* other content it returns the content as it is
C18_TwoVariantRead ==
  last.op = "readSecureFile" =>
    IF tokenShaped(cache.content)
    THEN /\ last.ok = decryptData(cache.content).ok
         /\ last.ok => last.text = decryptData(cache.content).text
    ELSE last.ok /\ last.text = cache.content


(***************************************************************************)
(* Vocabulary of the permission and lifecycle properties                   *)
(***************************************************************************)
\* two files that differ in their permission bits at most
sameContent(a, b) == a.exists = b.exists /\ (a.exists => a.content = b.content)

\* two outcomes of a call that differ in permission bits at most
sameOutcome(a, b) ==
  /\ a.ok = b.ok /\ a.err = b.err /\ a.result = b.result
  /\ a.rebuilds = b.rebuilds /\ a.wrote = b.wrote
  /\ sameContent(a.cache, b.cache)
  /\ \A p \in DOMAIN a.fs : sameContent(a.fs[p], b.fs[p])

\* the file holds exactly the snapshot, encrypted
holdsSnapshot(file, snapshot) ==
  /\ file.exists /\ isEncrypted(file.content)
  /\ decryptData(file.content) = [ok |-> TRUE, text |-> JSONstringify(snapshot)]

\* C19: whether or not the cache file and the export file can be restricted
\* to their owner, writeSecureFile leaves the whole content written, and a
\* refresh or a get started now ends the same way, returns the same snapshot
\* and leaves the same contents on disk; and whenever a call has saved a
\* snapshot it returned normally with that snapshot and the cache file holds it
C19_PermissionFailuresNotRaised ==
  /\ \A iv \in 1..NumIvs, chmodOk \in BOOLEAN, exportChmodOk \in BOOLEAN, force \in BOOLEAN :
       /\ sameOutcome(refreshCache(fs, mtime, pref, cache, now, iv, Io(TRUE, chmodOk, exportChmodOk)),
                      refreshCache(fs, mtime, pref, cache, now, iv, Io(TRUE, TRUE, TRUE)))
       /\ sameOutcome(getCachedData(force, fs, mtime, pref, cache, now, iv,
                                    Io(TRUE, chmodOk, exportChmodOk)),
                      getCachedData(force, fs, mtime, pref, cache, now, iv, Io(TRUE, TRUE, TRUE)))
       /\ \A encrypt \in BOOLEAN, data \in {JSONstringify(cachedDataOf(Src.urlAa, now))} :
            /\ writeSecureFile(cache, data, encrypt, iv, chmodOk).exists
            /\ writeSecureFile(cache, data, encrypt, iv, chmodOk).content
                 = (IF encrypt THEN encryptData(iv, data) ELSE data)
  /\ last.wrote => last.ok /\ holdsSnapshot(cache, last.result)

\* a rebuild has just saved the snapshot although neither the cache file nor
\* the export file could be restricted
C19_Witness ==
  /\ last.wrote /\ last.ok /\ last.rebuilds = 1
  /\ holdsSnapshot(cache, last.result)
  /\ cache.mode # Mode.ownerOnly
  /\ \E p \in DOMAIN fs : fs[p].exists /\ fs[p].mode # Mode.ownerOnly
                          /\ calculateFileHashAt(fs[p]) = last.result.props.exportFileHash.s


\* the file cannot be decrypted, or what it holds is not JSON
Unreadable(file) ==
  /\ file.exists
  /\ ~(readSecureFile(file).ok /\ JSONparse(readSecureFile(file).text).ok)

\* C20 as stated: the cache file gets a new content only when a rebuild saves
\* its snapshot, and it goes from present to absent only in a clear
C20_OnlyClearRemoves ==
  [][ /\ (cache'.exists /\ cache' # cache) => (last'.wrote /\ last'.rebuilds = 1)
      /\ (cache.exists /\ ~cache'.exists) => last'.op = "clear" ]_vars

\* C20: the cache file gets a new content only when a get, a typed accessor or
\* a refresh rebuilds and saves the snapshot it returns; it goes from present
\* to absent only in a clear, or in an unforced get or typed accessor that
\* found it unreadable, deleted it and then failed to rebuild; a refresh never
\* removes it
C20_SnapshotLifecycle ==
  [][ /\ (cache'.exists /\ cache' # cache)
           => /\ Calls(GetOps \cup {"refresh"})
              /\ last'.wrote /\ last'.rebuilds = 1 /\ last'.ok
              /\ holdsSnapshot(cache', last'.result)
      /\ (cache.exists /\ ~cache'.exists)
           => \/ Calls({"clear"}) /\ last'.ok
              \/ /\ Calls(GetOps) /\ ~last'.force
                 /\ Unreadable(cache)
                 /\ last'.load = "failed" /\ last'.deleted
                 /\ ~last'.ok /\ ~last'.wrote
      /\ (Calls({"refresh"}) /\ cache.exists) => cache'.exists ]_vars

\* a get found the cache unreadable, deleted it, and the rebuild failed
C20_Witness ==
  /\ last.op \in GetOps /\ ~last.force
  /\ last.load = "failed" /\ last.deleted
  /\ ~last.ok /\ ~cache.exists


(***************************************************************************)
(* Vocabulary of the rebuild properties                                    *)
(***************************************************************************)
\* the cache file is readable and stores the fingerprint of the export file
\* the calls resolve
Fresh(file) ==
  /\ file.exists /\ resolved # <<>>
  /\ readSecureFile(file).ok /\ JSONparse(readSecureFile(file).text).ok
  /\ Prop(JSONparse(readSecureFile(file).text).value, "exportFileHash")
       = Str(calculateFileHash(fs[resolved].content))

\* C21: getCachedData(true), when an export file resolves, loads nothing and
\* deletes nothing, whatever the cache file is, and rebuilds once, even when
\* the cache is fresh; when it returns, the cache file holds the snapshot it
\* returned, built at the time of the call; when it throws, the cache file is
\* as it was
C21_ForcedRefresh ==
  [][ (Calls({"get"}) /\ last'.force /\ resolved # <<>>)
        => /\ last'.load = "none" /\ ~last'.deleted /\ ~last'.unlinkErr
           /\ last'.refresh /\ last'.rebuilds = 1
           /\ last'.ok => /\ last'.wrote
                          /\ Prop(last'.result, "lastUpdated") = now
                          /\ holdsSnapshot(cache', last'.result)
           /\ ~last'.ok => cache' = cache /\ last'.err = "parse failed" ]_vars

\* a forced get has rebuilt and saved a snapshot later than time 0
C21_Witness ==
  /\ last.op = "get" /\ last.force /\ last.ok
  /\ last.load = "none" /\ last.rebuilds = 1 /\ last.wrote
  /\ now > 0 /\ Prop(last.result, "lastUpdated") = now
  /\ holdsSnapshot(cache, last.result)


\* C22: after every get, typed accessor or refresh that returns, the cache
\* file exists, decrypts to exactly the snapshot that was returned, and the
\* fingerprint it stores is the fingerprint of the export file
C22_FreshAfterSuccess ==
  (last.op \in GetOps \cup {"refresh"} /\ last.ok) =>
     /\ holdsSnapshot(cache, last.result)
     /\ Fresh(cache)


(***************************************************************************)
(* Vocabulary of the order property                                        *)
(***************************************************************************)
\* the rows read that went to a list, and the j-th of them in file order
rowsTo(kind) == {i \in 1..Len(rowsRead) : itemKind(rowsRead[i]) = kind}
nthRowTo(kind, j) == CHOOSE i \in rowsTo(kind) : Cardinality({k \in rowsTo(kind) : k < i}) = j - 1

\* the entity a list holds for a row
entityFor(kind, record) ==
  IF kind = "passwords" THEN parsePassword(record)
  ELSE IF kind = "creditCards" THEN parseCreditCard(record)
  ELSE parseSecureNote(record)

\* the snapshot of the lists returned, saved and loaded back
reloaded ==
  loadCachedData(saveCachedData(Absent,
                                JObject([passwords |-> last.passwords,
                                         creditCards |-> last.creditCards,
                                         secureNotes |-> last.secureNotes,
                                         lastUpdated |-> now,
                                         exportFileHash |-> Str(<<"0">>)]),
                                1, Io(TRUE, TRUE, TRUE)),
                 Io(TRUE, TRUE, TRUE)).value

\* C23: the j-th entity of each list returned by parseExportFile is the one
\* built from the j-th of the rows that went to that list, in file order; and
\* after the snapshot is saved and loaded back, the j-th entity of each list
\* is still the j-th entity returned
C23_OrderPreservation ==
  Parsed =>
    \A kind \in {"passwords", "creditCards", "secureNotes"} :
      /\ Len(last[kind]) = Cardinality(rowsTo(kind))
      /\ \A j \in 1..Len(last[kind]) :
           last[kind][j] = entityFor(kind, rowsRead[nthRowTo(kind, j)])
      /\ Len(reloaded.props[kind]) = Len(last[kind])
      /\ \A j \in 1..Len(last[kind]) :
           reloaded.props[kind][j] = stringifyEntity(last[kind][j])

\* two cards were read, the one with a card number before the one without,
\* and a saved snapshot holds them in that order
C23_Witness ==
  /\ Parsed /\ Len(last.creditCards) = 2
  /\ last.creditCards[1].cardNumber = Str(Value.cardNumber)
  /\ last.creditCards[2].cardNumber = Undefined
  /\ reloaded.props.creditCards[1] = stringifyEntity(last.creditCards[1])
  /\ reloaded.props.creditCards[1] # reloaded.props.creditCards[2]


(***************************************************************************)
(* Vocabulary of the agreement of classification with extraction           *)
(***************************************************************************)
\* the row has no type
untyped(record) == ~Truthy(Field(record, Column.type))

\* what the extraction of a card, of a credential, of a note would find
cardIndicated(record) ==
  \E f \in {"cardNumber", "expiryDate", "cvv", "cardholderName"} :
    Truthy(parseCreditCard(record)[f])
credentialIndicated(record) ==
  \E f \in {"password", "username", "url"} : Truthy(parsePassword(record)[f])
noteIndicated(record) ==
  /\ Truthy(parseSecureNote(record).note)
  /\ ~Truthy(parsePassword(record).password) /\ ~Truthy(parsePassword(record).username)

\* the list of an untyped row: card before credential before note
byExtraction(record) ==
  IF cardIndicated(record) THEN "creditCards"
  ELSE IF credentialIndicated(record) THEN "passwords"
  ELSE IF noteIndicated(record) THEN "secureNotes"
  ELSE "passwords"

\* C27: when no row of the export has a type, each list holds as many
\* entities as there are rows for which the extraction under every accepted
\* spelling finds that kind's fields: a card number, expiry, verification
\* code or holder name makes a card; otherwise a password, user name or url
\* makes a credential; otherwise a note makes a note
C27_ClassificationAgreesWithExtraction ==
  (Parsed /\ \A i \in 1..Len(rowsRead) : untyped(rowsRead[i]))
    => /\ Len(last.creditCards) = rowsOfKind(byExtraction, "creditCards")
       /\ Len(last.passwords) = rowsOfKind(byExtraction, "passwords")
       /\ Len(last.secureNotes) = rowsOfKind(byExtraction, "secureNotes")


(***************************************************************************)
(* Vocabulary of the round trip through a file                             *)
(***************************************************************************)
\* readSecureFile has just run on the file as writeSecureFile of this machine
\* left it
ReadBack ==
  /\ last.op = "readSecureFile"
  /\ last.by = SystemInfo.this /\ last.how = "none"

\* C26: for every string x, the empty string and strings of the token shape
\* included, readSecureFile(p) after writeSecureFile(p, x, true) returns x;
\* after writeSecureFile(p, x, false) it returns x whenever x is not
\* token-shaped
C26_SecureFileRoundTrip ==
  ReadBack =>
    /\ last.encrypt => last.ok /\ last.text = last.data
    /\ ~last.encrypt /\ ~tokenShaped(last.data) => last.ok /\ last.text = last.data


(***************************************************************************)
(* Two commands at once.  Each command is its own process and calls        *)
(* getCachedData(false); the steps of a call are its file system calls,    *)
(* and the steps of the two calls interleave.  `last.proc[c]` is where the *)
(* call of command c stands and what it holds in memory; `last.writes`     *)
(* counts the times the user has replaced the export file.                 *)
(* fs.writeFileSync opens the file (creating or truncating it) and then    *)
(* writes; a file that is unlinked while it is open stays open, and what   *)
(* is written to it reaches no path.  The two tokens have the same length, *)
(* so the later write to one file replaces the earlier one whole.          *)
(***************************************************************************)
\* the external writer replaces the export file at most MaxWrites times
MaxWrites == 1

Commands == {"search-passwords", "search-secure-notes"}

\* a command that has not called yet
Waiting ==
  [pc |-> "idle", cached |-> JNull, parsed |-> JNull, data |-> JNull, token |-> Chars(<<>>),
   linked |-> FALSE, ok |-> TRUE, result |-> JNull, deleted |-> FALSE, lost |-> FALSE,
   rebuilt |-> FALSE]

RaceInit ==
  /\ \E c \in {Src.urlAa, Src.mixed, Src.unclosed} :
       fs = [p \in AllPaths |-> IF p = exportPath THEN File(c, Mode.default) ELSE Absent]
  /\ mtime = [p \in ScannedPaths |-> 0]
  /\ cache \in InitialCaches
  /\ pref = configuredPath
  /\ now = 0
  /\ last = [proc |-> [c \in Commands |-> Waiting], writes |-> 0]

\* the call of command c returns or throws
Returned(local, ok, result) ==
  [local EXCEPT !.pc = "done", !.ok = ok, !.result = result, !.cached = JNull,
                !.parsed = JNull, !.data = JNull, !.token = Chars(<<>>), !.linked = FALSE]

\* loadCachedData after existsSync, were an error of the read thrown to the caller
readCache_throwing(local, cacheFile) ==
  IF ~cacheFile.exists THEN Returned(local, FALSE, JNull)
  ELSE Let(readSecureFile(cacheFile), LAMBDA read :
       Let(JSONparse(read.text), LAMBDA parsed :
         IF ~(read.ok /\ parsed.ok) THEN Returned(local, FALSE, JNull)
         ELSE IF truthyValue(parsed.value)
         THEN [local EXCEPT !.pc = "compare", !.cached = parsed.value]
         ELSE [local EXCEPT !.pc = "parse"]))

\* loadCachedData after existsSync: readSecureFile and JSON.parse; a file that
\* is gone by now, or cannot be decrypted or parsed, leads to the catch block
readCache(local, cacheFile) ==
  IF ~cacheFile.exists THEN [local EXCEPT !.pc = "unlink"]
  ELSE Let(readSecureFile(cacheFile), LAMBDA read :
       Let(JSONparse(read.text), LAMBDA parsed :
         IF ~(read.ok /\ parsed.ok) THEN [local EXCEPT !.pc = "unlink"]
         ELSE IF truthyValue(parsed.value)
         THEN [local EXCEPT !.pc = "compare", !.cached = parsed.value]
         ELSE [local EXCEPT !.pc = "parse"]))

\* command c is at step pc of its call
At(c, pc) == last.proc[c].pc = pc

\* getCachedData(false) begins: getExportFilePath
Begin(c) ==
  /\ last.proc[c].pc \in {"idle", "done"}
  /\ last' = [last EXCEPT !.proc[c] =
                IF getExportFilePath(fs, mtime, pref) = <<>>
                THEN Returned(Waiting, FALSE, JNull)
                ELSE [Waiting EXCEPT !.pc = "exists"]]
  /\ UNCHANGED <<fs, mtime, cache, pref, now>>

\* loadCachedData: fs.existsSync(cachePath); without a cache, refreshCache
CacheExists(c) ==
  /\ At(c, "exists")
  /\ last' = [last EXCEPT !.proc[c].pc = IF cache.exists THEN "read" ELSE "parse"]
  /\ UNCHANGED <<fs, mtime, cache, pref, now>>

\* loadCachedData: readSecureFile(cachePath) and JSON.parse
CacheRead(c) ==
  /\ At(c, "read")
  /\ last' = [last EXCEPT !.proc[c] = readCache(@, cache)]
  /\ UNCHANGED <<fs, mtime, cache, pref, now>>

\* loadCachedData, catch block: fs.unlinkSync(cachePath), its error ignored;
\* then null is returned and getCachedData goes on to refreshCache
CacheUnlink(c) ==
  /\ At(c, "unlink")
  /\ cache' = Absent
  /\ last' = [last EXCEPT !.proc =
                [d \in Commands |->
                   IF d = c THEN [last.proc[d] EXCEPT !.pc = "parse", !.deleted = cache.exists]
                   ELSE [last.proc[d] EXCEPT !.linked = last.proc[d].linked /\ ~cache.exists]]]
  /\ UNCHANGED <<fs, mtime, pref, now>>

\* getCachedData: existsSync(exportFilePath), calculateFileHash and the
\* comparison with the hash of the loaded cache
Compare(c) ==
  /\ At(c, "compare")
  /\ \E path \in {getExportFilePath(fs, mtime, pref)} :
       last' = [last EXCEPT !.proc[c] =
                  IF existsSync(fs, path) /\ exportChanged(@.cached, fs[path])
                  THEN [@ EXCEPT !.pc = "parse", !.cached = JNull]
                  ELSE Returned(@, TRUE, @.cached)]
  /\ UNCHANGED <<fs, mtime, cache, pref, now>>

\* refreshCache: getExportFilePath, existsSync and parseExportFile
Parse(c) ==
  /\ At(c, "parse")
  /\ \E path \in {getExportFilePath(fs, mtime, pref)} :
       last' = [last EXCEPT !.proc[c] =
                  IF path = <<>> \/ ~existsSync(fs, path) THEN Returned(@, FALSE, JNull)
                  ELSE Let(parseExportFileAt(fs[path]), LAMBDA parsed :
                         IF parsed.ok THEN [@ EXCEPT !.pc = "hash", !.parsed = parsed]
                         ELSE Returned(@, FALSE, JNull))]
  /\ UNCHANGED <<fs, mtime, cache, pref, now>>

\* refreshCache: secureExportFile, calculateFileHash, Date.now(); then
\* saveCachedData: JSON.stringify and encryptData
Hash(c) ==
  /\ At(c, "hash")
  /\ \E path \in {getExportFilePath(fs, mtime, pref)}, iv \in 1..NumIvs :
       /\ fs' = [fs EXCEPT ![path] = secureExportFile(@, TRUE)]
       /\ \E data \in {JObject([passwords |-> last.proc[c].parsed.passwords,
                                creditCards |-> last.proc[c].parsed.creditCards,
                                secureNotes |-> last.proc[c].parsed.secureNotes,
                                lastUpdated |-> now,
                                exportFileHash |-> Str(calculateFileHashAt(fs[path]))])} :
            last' = [last EXCEPT !.proc[c] =
                       [@ EXCEPT !.pc = "open", !.parsed = JNull, !.data = data,
                                 !.token = encryptData(iv, JSONstringify(data))]]
  /\ UNCHANGED <<mtime, cache, pref, now>>

\* writeSecureFile, fs.writeFileSync: the file is opened, created or truncated
Open(c) ==
  /\ At(c, "open")
  /\ cache' = writeFileSync(cache, Chars(<<>>))
  /\ last' = [last EXCEPT !.proc[c] = [@ EXCEPT !.pc = "write", !.linked = TRUE]]
  /\ UNCHANGED <<fs, mtime, pref, now>>

\* writeSecureFile, fs.writeFileSync: the token is written to the open file
Write(c) ==
  /\ At(c, "write")
  /\ cache' = IF last.proc[c].linked THEN [cache EXCEPT !.content = last.proc[c].token] ELSE cache
  /\ last' = [last EXCEPT !.proc[c] = [@ EXCEPT !.pc = "chmod", !.linked = FALSE,
                                                 !.lost = ~last.proc[c].linked]]
  /\ UNCHANGED <<fs, mtime, pref, now>>

\* writeSecureFile: setSecureFilePermissions, which does not throw when the
\* path is gone; then refreshCache returns the snapshot
Chmod(c) ==
  /\ At(c, "chmod")
  /\ cache' = IF cache.exists THEN setSecureFilePermissions(cache, TRUE) ELSE cache
  /\ last' = [last EXCEPT !.proc[c] = [Returned(@, TRUE, @.data) EXCEPT !.rebuilt = TRUE]]
  /\ UNCHANGED <<fs, mtime, pref, now>>

\* the user saves another export over the export file
ExternalWrite ==
  /\ last.writes < MaxWrites
  /\ \E content \in {Src.urlAa, Src.mixed, Src.unclosed} \ {fs[exportPath].content} :
       fs' = [fs EXCEPT ![exportPath] = writeFileSync(@, content)]
  /\ last' = [last EXCEPT !.writes = @ + 1]
  /\ UNCHANGED <<mtime, cache, pref, now>>

RaceNext ==
  \/ \E c \in Commands :
       \/ Begin(c)
       \/ CacheExists(c)
       \/ CacheRead(c)
       \/ CacheUnlink(c)
       \/ Compare(c)
       \/ Parse(c)
       \/ Hash(c)
       \/ Open(c)
       \/ Write(c)
       \/ Chmod(c)
  \/ ExternalWrite

RaceSpec == RaceInit /\ [][RaceNext]_vars


(***************************************************************************)
(* Vocabulary of the properties of overlapping calls                       *)
(***************************************************************************)
\* the entities and the fingerprint of the snapshot are those of one export
consistent(snapshot) ==
  /\ snapshot.j = "object"
  /\ \E content \in SourceContents :
       /\ parsedContents[content].ok
       /\ entitiesOf(snapshot) = entitiesOf(cachedDataOf(content, 0))
       /\ Prop(snapshot, "exportFileHash") = Str(hashedContents[content])

\* the snapshot that the cache file holds
stored == JSONparse(decryptData(cache.content).text).value

\* C25: the entities and the fingerprint stored in one snapshot always derive
\* from the same content of the export file, even if the export file is
\* replaced while a rebuild is in progress, between the parse and the
\* fingerprint; no call returns a snapshot with the entities of one content
\* and the fingerprint of another
C25_RebuildConsistency ==
  /\ ReadableToken(cache) => consistent(stored)
  /\ \A c \in Commands : At(c, "done") /\ last.proc[c].ok => consistent(last.proc[c].result)

\* both commands have returned from their calls, the export file has not been
\* replaced and it parses
BothReturned ==
  /\ \A c \in Commands : At(c, "done")
  /\ last.writes = 0
  /\ parsedContents[fs[exportPath].content].ok

\* C28: when two commands run getCachedData(false) against the same cache
\* file and an export file that parses and is not replaced, with their file
\* reads, deletes and writes interleaved in any order, neither call fails,
\* both return snapshots with the same entities and fingerprint, those of the
\* export file, and once both have returned the cache file is present and
\* fresh
C28_ConcurrentCallers ==
  BothReturned =>
    /\ \A c \in Commands :
         /\ last.proc[c].ok
         /\ consistent(last.proc[c].result)
         /\ Prop(last.proc[c].result, "exportFileHash")
              = Str(calculateFileHashAt(fs[exportPath]))
    /\ Fresh(cache)

\* both have rebuilt, one of them deleted the cache file while the other had
\* it open, and what the other wrote reached no path
C28_Witness ==
  /\ BothReturned
  /\ \A c \in Commands : last.proc[c].ok /\ last.proc[c].rebuilt
  /\ \E c, d \in Commands : last.proc[c].deleted /\ last.proc[d].lost
  /\ Fresh(cache)


(***************************************************************************)
(* The fingerprint on its own: one export file, found by auto-detection in *)
(* ~/.nordpass, whose characters the user moves about and whose            *)
(* modification time changes with and without its content, while the       *)
(* clock goes on and a command calls getCachedData(false).                 *)
(***************************************************************************)
scannedExport == nordpassDir \o <<"nordpass-a.csv">>

\* the contents the export file starts from: empty, one character, two, and
\* two whose hash leaves the 32-bit range
FingerprintContents ==
  {<<>>, <<"a">>, <<"a","b">>, <<"a","z","z","z","z","z">>, <<"z","z","z","z","z","z","z">>}

FingerprintInit ==
  /\ \E c \in FingerprintContents :
       fs = [p \in AllPaths |-> IF p = scannedExport THEN File(c, Mode.default) ELSE Absent]
  /\ mtime = [p \in ScannedPaths |-> 0]
  /\ cache = Absent
  /\ pref = <<>>
  /\ now = 0
  /\ last = NoCall

\* the user saves the export with two adjacent unequal characters in each
\* other's place
Transpose ==
  \E i \in 1..(Len(fs[scannedExport].content) - 1) :
    /\ fs[scannedExport].content[i] # fs[scannedExport].content[i + 1]
    /\ \E content \in {[k \in 1..Len(fs[scannedExport].content) |->
                          IF k = i THEN fs[scannedExport].content[i + 1]
                          ELSE IF k = i + 1 THEN fs[scannedExport].content[i]
                          ELSE fs[scannedExport].content[k]]} :
         fs' = [fs EXCEPT ![scannedExport] = writeFileSync(@, content)]
    /\ mtime' = [mtime EXCEPT ![scannedExport] = now]
    /\ last' = [NoCall EXCEPT !.op = "transpose"]
    /\ UNCHANGED <<cache, pref, now>>

\* the export is copied or restored: another modification time, same content
Touch ==
  \E t \in (0..MaxClock) \ {mtime[scannedExport]} :
    /\ mtime' = [mtime EXCEPT ![scannedExport] = t]
    /\ last' = [NoCall EXCEPT !.op = "env"]
    /\ UNCHANGED <<fs, cache, pref, now>>

FingerprintNext == GetCachedData(FALSE) \/ Transpose \/ Touch \/ Tick

FingerprintSpec == FingerprintInit /\ [][FingerprintNext]_vars


(***************************************************************************)
(* Vocabulary of the fingerprint property                                  *)
(***************************************************************************)
\* h := 31 * h + code(c) from 0, wrapped to a signed 32-bit integer at each
\* character and written in base 36, worked out by hand for each content the
\* export file takes: 97, 3105, 3135, then the values that leave the range,
\* -1401514439 ... -685785689 and 215481018
fingerprintByHand ==
  (<<>> :> <<"0">>) @@
  (<<"a">> :> <<"2","p">>) @@
  (<<"a","b">> :> <<"2","e","9">>) @@
  (<<"b","a">> :> <<"2","f","3">>) @@
  (<<"a","z","z","z","z","z">> :> <<"-","n","6","f","b","g","n">>) @@
  (<<"z","a","z","z","z","z">> :> <<"-","b","q","1","m","f","t">>) @@
  (<<"z","z","a","z","z","z">> :> <<"-","b","c","q","q","9","z">>) @@
  (<<"z","z","z","a","z","z">> :> <<"-","b","c","b","a","5","5">>) @@
  (<<"z","z","z","z","a","z">> :> <<"-","b","c","a","s","7","b">>) @@
  (<<"z","z","z","z","z","a">> :> <<"-","b","c","a","r","m","h">>) @@
  (<<"z","z","z","z","z","z","z">> :> <<"3","k","a","i","7","u">>)

\* the content of the export file
exportContent == fs[scannedExport].content

exportAt(path) ==
  IF path \in {DEFAULT_EXPORT_PATHS[1], DEFAULT_EXPORT_PATHS[3], scannedExport}
  THEN Src.urlAa ELSE Src.mixed

ResolveInit ==
  /\ fs = [p \in AllPaths |-> Absent]
  /\ mtime = [p \in ScannedPaths |-> 0]
  /\ cache = Absent
  /\ pref \in Preferences
  /\ now = 0
  /\ last = NoCall

\* the user saves the export of a place; a file in ~/.nordpass gets a
\* modification time
SaveExport ==
  \E p \in AllPaths, t \in 0..MaxClock :
    /\ ~fs[p].exists \/ (p \in ScannedPaths /\ t # mtime[p])
    /\ fs' = [fs EXCEPT ![p] = writeFileSync(@, exportAt(p))]
    /\ mtime' = IF p \in ScannedPaths THEN [mtime EXCEPT ![p] = t] ELSE mtime
    /\ p \notin ScannedPaths => t = 0
    /\ last' = [NoCall EXCEPT !.op = "env"]
    /\ UNCHANGED <<cache, pref, now>>

\* the user removes an export
RemoveExport ==
  \E p \in AllPaths :
    /\ fs[p].exists
    /\ fs' = [fs EXCEPT ![p] = Absent]
    /\ mtime' = IF p \in ScannedPaths THEN [mtime EXCEPT ![p] = 0] ELSE mtime
    /\ last' = [NoCall EXCEPT !.op = "env"]
    /\ UNCHANGED <<cache, pref, now>>

ResolveNext == GetCachedData(FALSE) \/ SaveExport \/ RemoveExport \/ SetPreference

ResolveSpec == ResolveInit /\ [][ResolveNext]_vars


(***************************************************************************)
(* Vocabulary of the resolution property                                   *)
(***************************************************************************)
\* the names in ~/.nordpass of files that exist, contain nordpass and end in
\* .csv as the names are written, and whatever the case of their letters
exportsAsWritten ==
  {n \in Range(nordpassDirNames) :
     /\ existsSync(fs, nordpassDir \o <<n>>)
     /\ includes(nameChars(n), <<"n","o","r","d","p","a","s","s">>)
     /\ endsWith(nameChars(n), <<".","c","s","v">>)}

exportsAnyCase ==
  {n \in Range(nordpassDirNames) : existsSync(fs, nordpassDir \o <<n>>) /\ looksLikeExport(n)}

\* the most recently modified of these files, and the one of them that the
\* directory lists first
mostRecent(names) ==
  {n \in names : \A m \in names : mtime[nordpassDir \o <<m>>] <= mtime[nordpassDir \o <<n>>]}

firstListed(names) ==
  {n \in names : \A m \in names : IndexOf(nordpassDirNames, n) <= IndexOf(nordpassDirNames, m)}

\* the paths the fixed priority allows, <<>> for none, given the files
\* found in ~/.nordpass
byPriority(found) ==
  IF pref # <<>> /\ existsSync(fs, expandTilde(pref)) THEN {expandTilde(pref)}
  ELSE IF existsSync(fs, HOME \o <<"Downloads", "nordpass-export.csv">>)
  THEN {HOME \o <<"Downloads", "nordpass-export.csv">>}
  ELSE IF existsSync(fs, HOME \o <<"Desktop", "nordpass-export.csv">>)
  THEN {HOME \o <<"Desktop", "nordpass-export.csv">>}
  ELSE IF existsSync(fs, HOME \o <<"Documents", "nordpass-export.csv">>)
  THEN {HOME \o <<"Documents", "nordpass-export.csv">>}
  ELSE IF found = {} THEN {<<>>}
  ELSE {nordpassDir \o <<n>> : n \in found}

\* a getCachedData(false) that finds a snapshot of another fingerprint than
\* that of the file now resolved rebuilds from this file; every call that
\* returns, returns the entities and the fingerprint of the file now resolved
RebuildsFromResolved ==
  (Calls(GetOps) /\ ~last'.force /\ resolved # <<>>) =>
     /\ last'.ok
     /\ entitiesOf(last'.result) = entitiesOf(cachedDataOf(fs[resolved].content, 0))
     /\ Prop(last'.result, "exportFileHash") = Str(hashedContents[fs[resolved].content])
     /\ (last'.load = "loaded"
           /\ Prop(stored, "exportFileHash") # Str(hashedContents[fs[resolved].content]))
          => last'.refresh /\ last'.rebuilds = 1 /\ holdsSnapshot(cache', last'.result)

====
